---------------------------- MODULE Spec2Model ----------------------------
(***************************************************************************)
(* A model of the puzzle solutions of the repository and of the shared     *)
(* file readers.  Every solution is an independent program, so every       *)
(* program has its own variables, its own initial condition and its own    *)
(* next-state relation; a specification runs one program and leaves the    *)
(* variables of the others idle.                                           *)
(***************************************************************************)
EXTENDS Integers, Sequences, FiniteSets, Bags, TLC

VARIABLES
    \* utils/file_io.rs: one call of two_columns_from_file / rows_from_file
    pcIO, fnIO, fileIO, lineIO, accIO, retIO, diagIO,
    \* bin/day07.rs: part1 / part2 over an input file
    pc07, part07, file07, line07, equations07, eq07, sum07, ret07, diag07,
    \* bin/day07.rs: one call of equation_possible
    pcEq, targetEq, numbersEq, concatEq, resEq,
    \* bin/day06.rs: part1 over a maze
    pc06, guard06, obstacles06, bounds06, visited06, ret06,
    \* bin/day09.rs: part1 (compressed, checksum) over a disk map
    pc09, map09, harddisk09, left09, right09, compressed09, freeLeft09, filesRight09, ret09,
    \* bin/day19.rs: calls on one PatternTrie
    trie19, towels19, fn19, arg19, ret19,
    \* bin/day16.rs: one call of Maze::score_and_best_seats
    pc16, bounds16, field16, start16, end16, reindeers16, min_score_map16, min_total16, best_seats16, ret16,
    \* bin/day18.rs: one call of find_blocking_byte
    pc18, size18, corruptions18, left18, right18, mid18, memory18, runners18, fastest_arrival_map18, ret18,
    \* bin/day21.rs: min_for_sequence / min_len_for_sequence over a chain of keypads, and the keypads pressed by hand
    pc21, depth21, tie21, order21, idx21, cached_sequences21, cached_lengths21, code21, seq21, len21, lengths21, cap21, arms21, typed21, presses21,
    \* bin/day24.rs: calls of Device::compute on one device
    pc24, gate_map24, known_values24, inputs24, calls24, name24, ret24,
    \* bin/day24.rs: two gates compared
    pcGe, leftGe, rightGe, resGe,
    \* bin/day15.rs: calls of Warehouse<Tile>::try_step on one warehouse
    pc15, bounds15, room15, robot15, before15, dir15, ret15, steps15,
    \* bin/day17.rs: part2, one call of reverse_engineer_a
    pc17, build17, program17, ret17,
    \* bin/day09.rs: part2 (defrag_compress, checksum) over a disk map
    pcDf, mapDf, harddiskDf, right_idxDf, movesDf, retDf,
    \* bin/day02.rs: is_safe_report / is_safe_report_with_damper over one report
    pc02, report02, fn02, ret02,
    \* bin/day23.rs: part2 run twice on one graph
    pc23, data23, runs23, earlier23, ret23,
    \* bin/day06.rs: calls of creates_loop on one maze
    pcCl, boundsCl, obstaclesCl, guardCl, maze0Cl, obstacleCl, guard_startCl, visited_guard_statesCl, stepsCl, callsCl, retCl,
    \* bin/day11.rs: blink_list and blink_map over the stones of one input
    pc11, stone_list11, stone_map11, list_blinks11, map_blinks11,
    \* lib.rs and utils/map2d/grid.rs: value of Map2D and of Grid over one grid
    pcMp, linesMp, fnMp, posMp, retMp

varsIO == <<pcIO, fnIO, fileIO, lineIO, accIO, retIO, diagIO>>
vars07 == <<pc07, part07, file07, line07, equations07, eq07, sum07, ret07, diag07>>
varsEq == <<pcEq, targetEq, numbersEq, concatEq, resEq>>
vars06 == <<pc06, guard06, obstacles06, bounds06, visited06, ret06>>
vars09 == <<pc09, map09, harddisk09, left09, right09, compressed09, freeLeft09, filesRight09, ret09>>
vars19 == <<trie19, towels19, fn19, arg19, ret19>>
vars16 == <<pc16, bounds16, field16, start16, end16, reindeers16, min_score_map16, min_total16, best_seats16, ret16>>
vars18 == <<pc18, size18, corruptions18, left18, right18, mid18, memory18, runners18, fastest_arrival_map18, ret18>>
vars21 == <<pc21, depth21, tie21, order21, idx21, cached_sequences21, cached_lengths21, code21, seq21, len21, lengths21, cap21, arms21, typed21, presses21>>
vars24 == <<pc24, gate_map24, known_values24, inputs24, calls24, name24, ret24>>
varsGe == <<pcGe, leftGe, rightGe, resGe>>
vars15 == <<pc15, bounds15, room15, robot15, before15, dir15, ret15, steps15>>
vars17 == <<pc17, build17, program17, ret17>>
varsDf == <<pcDf, mapDf, harddiskDf, right_idxDf, movesDf, retDf>>
vars02 == <<pc02, report02, fn02, ret02>>
vars23 == <<pc23, data23, runs23, earlier23, ret23>>
varsCl == <<pcCl, boundsCl, obstaclesCl, guardCl, maze0Cl, obstacleCl, guard_startCl, visited_guard_statesCl, stepsCl, callsCl, retCl>>
vars11 == <<pc11, stone_list11, stone_map11, list_blinks11, map_blinks11>>
varsMp == <<pcMp, linesMp, fnMp, posMp, retMp>>

vars == <<varsIO, vars07, varsEq, vars06, vars09, vars19, vars16, vars18, vars21, vars24, varsGe, vars15, vars17, varsDf, vars02, vars23, varsCl, vars11, varsMp>>

\* what a program leaves alone: the variables of the other programs
othersIO == <<vars07, varsEq, vars06, vars09, vars19, vars16, vars18, vars21, vars24, varsGe, vars15, vars17, varsDf, vars02, vars23, varsCl, vars11, varsMp>>
others07 == <<varsIO, varsEq, vars06, vars09, vars19, vars16, vars18, vars21, vars24, varsGe, vars15, vars17, varsDf, vars02, vars23, varsCl, vars11, varsMp>>
othersEq == <<varsIO, vars07, vars06, vars09, vars19, vars16, vars18, vars21, vars24, varsGe, vars15, vars17, varsDf, vars02, vars23, varsCl, vars11, varsMp>>
others06 == <<varsIO, vars07, varsEq, vars09, vars19, vars16, vars18, vars21, vars24, varsGe, vars15, vars17, varsDf, vars02, vars23, varsCl, vars11, varsMp>>
others09 == <<varsIO, vars07, varsEq, vars06, vars19, vars16, vars18, vars21, vars24, varsGe, vars15, vars17, varsDf, vars02, vars23, varsCl, vars11, varsMp>>
others19 == <<varsIO, vars07, varsEq, vars06, vars09, vars16, vars18, vars21, vars24, varsGe, vars15, vars17, varsDf, vars02, vars23, varsCl, vars11, varsMp>>
others16 == <<varsIO, vars07, varsEq, vars06, vars09, vars19, vars18, vars21, vars24, varsGe, vars15, vars17, varsDf, vars02, vars23, varsCl, vars11, varsMp>>
others18 == <<varsIO, vars07, varsEq, vars06, vars09, vars19, vars16, vars21, vars24, varsGe, vars15, vars17, varsDf, vars02, vars23, varsCl, vars11, varsMp>>
others21 == <<varsIO, vars07, varsEq, vars06, vars09, vars19, vars16, vars18, vars24, varsGe, vars15, vars17, varsDf, vars02, vars23, varsCl, vars11, varsMp>>
others24 == <<varsIO, vars07, varsEq, vars06, vars09, vars19, vars16, vars18, vars21, varsGe, vars15, vars17, varsDf, vars02, vars23, varsCl, vars11, varsMp>>
othersGe == <<varsIO, vars07, varsEq, vars06, vars09, vars19, vars16, vars18, vars21, vars24, vars15, vars17, varsDf, vars02, vars23, varsCl, vars11, varsMp>>
others15 == <<varsIO, vars07, varsEq, vars06, vars09, vars19, vars16, vars18, vars21, vars24, varsGe, vars17, varsDf, vars02, vars23, varsCl, vars11, varsMp>>
others17 == <<varsIO, vars07, varsEq, vars06, vars09, vars19, vars16, vars18, vars21, vars24, varsGe, vars15, varsDf, vars02, vars23, varsCl, vars11, varsMp>>
othersDf == <<varsIO, vars07, varsEq, vars06, vars09, vars19, vars16, vars18, vars21, vars24, varsGe, vars15, vars17, vars02, vars23, varsCl, vars11, varsMp>>
others02 == <<varsIO, vars07, varsEq, vars06, vars09, vars19, vars16, vars18, vars21, vars24, varsGe, vars15, vars17, varsDf, vars23, varsCl, vars11, varsMp>>
others23 == <<varsIO, vars07, varsEq, vars06, vars09, vars19, vars16, vars18, vars21, vars24, varsGe, vars15, vars17, varsDf, vars02, varsCl, vars11, varsMp>>
othersCl == <<varsIO, vars07, varsEq, vars06, vars09, vars19, vars16, vars18, vars21, vars24, varsGe, vars15, vars17, varsDf, vars02, vars23, vars11, varsMp>>
others11 == <<varsIO, vars07, varsEq, vars06, vars09, vars19, vars16, vars18, vars21, vars24, varsGe, vars15, vars17, varsDf, vars02, vars23, varsCl, varsMp>>
othersMp == <<varsIO, vars07, varsEq, vars06, vars09, vars19, vars16, vars18, vars21, vars24, varsGe, vars15, vars17, varsDf, vars02, vars23, varsCl, vars11>>

-----------------------------------------------------------------------------
(* Helpers shared by the programs.                                         *)

\* Option<T> is a sequence of length 0 (None) or 1 (Some(v)).
None == <<>>
Some(v) == <<v>>

Min(a, b) == IF a <= b THEN a ELSE b

RECURSIVE SeqSum(_)
SeqSum(s) == IF s = <<>> THEN 0 ELSE s[1] + SeqSum(Tail(s))

\* all sequences over S of length lo..hi
SeqsOf(S, lo, hi) == UNION {[1..n -> S] : n \in lo..hi}

Digits == <<"0", "1", "2", "3", "4", "5", "6", "7", "8", "9">>

IsDigit(c) == \E i \in 1..10 : Digits[i] = c

DigitVal(c) == (CHOOSE i \in 1..10 : Digits[i] = c) - 1

\* str::parse::<integer>: Ok(n) for a non-empty word of decimal digits, Err otherwise
RECURSIVE DecimalValue(_)
DecimalValue(w) ==
    IF w = <<>> THEN 0
    ELSE 10 * DecimalValue(SubSeq(w, 1, Len(w) - 1)) + DigitVal(w[Len(w)])

ParseNumberLax(w) ==
    LET ds == SelectSeq(w, IsDigit)
    IN  IF ds = <<>> THEN None ELSE Some(DecimalValue(ds))

ParseNumber(w) ==
    IF w # <<>> /\ \A i \in 1..Len(w) : IsDigit(w[i])
    THEN Some(DecimalValue(w))
    ELSE None

\* str::split_whitespace: the maximal runs of non-blank characters, in order
RECURSIVE SplitWs(_, _, _)
SplitWs(line, i, cur) ==
    IF i > Len(line) THEN (IF cur = <<>> THEN <<>> ELSE <<cur>>)
    ELSE IF line[i] = " "
         THEN (IF cur = <<>> THEN <<>> ELSE <<cur>>) \o SplitWs(line, i + 1, <<>>)
         ELSE SplitWs(line, i + 1, Append(cur, line[i]))

SplitWhitespace(line) == SplitWs(line, 1, <<>>)

\* str::trim for the blank character
RECURSIVE TrimStart(_)
TrimStart(s) == IF s # <<>> /\ s[1] = " " THEN TrimStart(Tail(s)) ELSE s

RECURSIVE TrimEnd(_)
TrimEnd(s) ==
    IF s # <<>> /\ s[Len(s)] = " " THEN TrimEnd(SubSeq(s, 1, Len(s) - 1)) ELSE s

Trim(s) == TrimEnd(TrimStart(s))

-----------------------------------------------------------------------------
(* utils/file_io.rs: two_columns_from_file and rows_from_file              *)

MaxLinesIO == 2
MaxWordsIO == 3

\* the words an input line is made of: a number and a word that is no number
WordsIO == {<<"7">>, <<"4", "x">>}

RECURSIVE JoinWords(_, _)
JoinWords(ws, sep) ==
    IF ws = <<>> THEN <<>>
    ELSE IF Len(ws) = 1 THEN ws[1]
    ELSE ws[1] \o sep \o JoinWords(Tail(ws), sep)

\* the lines of a file: words separated by one blank, or (padded) by two blanks
\* with a blank before the first and after the last
LinesIO(padded) ==
    IF padded
    THEN {<<" ">> \o JoinWords(ws, <<" ", " ">>) \o <<" ">> : ws \in SeqsOf(WordsIO, 0, MaxWordsIO)}
    ELSE {JoinWords(ws, <<" ">>) : ws \in SeqsOf(WordsIO, 0, MaxWordsIO)}

FilesIO ==
    {[exists |-> FALSE, lines |-> <<>>]}
    \cup {[exists |-> TRUE, lines |-> ls] :
            ls \in SeqsOf(LinesIO(FALSE), 0, MaxLinesIO) \cup SeqsOf(LinesIO(TRUE), 0, MaxLinesIO)}

InitIO ==
    /\ pcIO = "call"
    /\ fnIO \in {"two_columns_from_file", "rows_from_file"}
    /\ fileIO \in FilesIO
    /\ lineIO = 1
    /\ accIO = <<>>
    /\ retIO = None
    /\ diagIO = ""

IdleIO ==
    /\ pcIO = "idle"
    /\ fnIO = ""
    /\ fileIO = [exists |-> FALSE, lines |-> <<>>]
    /\ lineIO = 0
    /\ accIO = <<>>
    /\ retIO = None
    /\ diagIO = ""

\* the first word among the first n of ws that does not parse (0: they all parse)
FirstUnparsable(ws, n) ==
    LET bad == {i \in 1..Min(n, Len(ws)) : ParseNumber(ws[i]) = None}
    IN  IF bad = {} THEN 0 ELSE CHOOSE i \in bad : \A j \in bad : i <= j

\* Itertools::collect_tuple over the lazy map of parse().expect(..): two items are
\* pulled, then one more to see that the iterator is exhausted.
CollectTupleFirstTwo(ws) ==
    IF FirstUnparsable(ws, 2) # 0 THEN [panic |-> "Failed to parse", tuple |-> None]
    ELSE IF Len(ws) < 2
    THEN [panic |-> "Each line must contain exactly two elements.", tuple |-> None]
    ELSE [panic |-> "", tuple |-> Some(<<ParseNumber(ws[1])[1], ParseNumber(ws[2])[1]>>)]

CollectTuple(ws) ==
    IF FirstUnparsable(ws, 3) # 0 THEN [panic |-> "Failed to parse", tuple |-> None]
    ELSE IF Len(ws) # 2
    THEN [panic |-> "Each line must contain exactly two elements.", tuple |-> None]
    ELSE [panic |-> "", tuple |-> Some(<<ParseNumber(ws[1])[1], ParseNumber(ws[2])[1]>>)]

\* the row of rows_from_file: every word parsed, the first failure panics
CollectRow(ws) ==
    IF FirstUnparsable(ws, Len(ws)) # 0 THEN [panic |-> "Failed to parse", row |-> None]
    ELSE [panic |-> "", row |-> Some([i \in 1..Len(ws) |-> ParseNumber(ws[i])[1]])]

\* lines_from_file: File::open(path).expect("Failed to open file.")
OpenFile ==
    /\ pcIO = "call"
    /\ IF fileIO.exists
       THEN pcIO' = "reading" /\ diagIO' = diagIO
       ELSE pcIO' = "panicked" /\ diagIO' = "Failed to open file."
    /\ UNCHANGED <<fnIO, fileIO, lineIO, accIO, retIO>>
    /\ UNCHANGED othersIO

\* one item of the iterator over the lines, in two_columns_from_file
ReadTupleLine ==
    /\ pcIO = "reading"
    /\ fnIO = "two_columns_from_file"
    /\ lineIO <= Len(fileIO.lines)
    /\ LET r == CollectTuple(SplitWhitespace(fileIO.lines[lineIO]))
       IN  IF r.panic # ""
           THEN /\ pcIO' = "panicked"
                /\ diagIO' = r.panic
                /\ UNCHANGED <<lineIO, accIO>>
           ELSE /\ accIO' = Append(accIO, r.tuple[1])
                /\ lineIO' = lineIO + 1
                /\ UNCHANGED <<pcIO, diagIO>>
    /\ UNCHANGED <<fnIO, fileIO, retIO>>
    /\ UNCHANGED othersIO

\* one item of the iterator over the lines, in rows_from_file
ReadRowLine ==
    /\ pcIO = "reading"
    /\ fnIO = "rows_from_file"
    /\ lineIO <= Len(fileIO.lines)
    /\ LET r == CollectRow(SplitWhitespace(fileIO.lines[lineIO]))
       IN  IF r.panic # ""
           THEN /\ pcIO' = "panicked"
                /\ diagIO' = r.panic
                /\ UNCHANGED <<lineIO, accIO>>
           ELSE /\ accIO' = Append(accIO, r.row[1])
                /\ lineIO' = lineIO + 1
                /\ UNCHANGED <<pcIO, diagIO>>
    /\ UNCHANGED <<fnIO, fileIO, retIO>>
    /\ UNCHANGED othersIO

\* the end of the lines: unzip() of the tuples, collect() of the rows
ReturnIO ==
    /\ pcIO = "reading"
    /\ lineIO > Len(fileIO.lines)
    /\ pcIO' = "returned"
    /\ retIO' = IF fnIO = "two_columns_from_file"
                THEN Some(<<[i \in 1..Len(accIO) |-> accIO[i][1]],
                            [i \in 1..Len(accIO) |-> accIO[i][2]]>>)
                ELSE Some(accIO)
    /\ UNCHANGED <<fnIO, fileIO, lineIO, accIO, diagIO>>
    /\ UNCHANGED othersIO

NextIO == OpenFile \/ ReadTupleLine \/ ReadRowLine \/ ReturnIO

-----------------------------------------------------------------------------
(* bin/day07.rs                                                            *)

MaxLines07 == 2
MaxNums07 == 2

\* ilog10: 10^(number of decimal digits of x), 10 for x = 0
RECURSIVE Pow10Digits(_)
Pow10Digits(x) == IF x < 10 THEN 10 ELSE 10 * Pow10Digits(x \div 10)

\* equation_possible, for a non-empty list (&& and || evaluate left to right)
RECURSIVE EquationPossible(_, _, _)
EquationPossible(target, numbers, concatenation_allowed) ==
    IF Len(numbers) = 1 THEN target = numbers[1]
    ELSE LET number == numbers[Len(numbers)]
             rest == SubSeq(numbers, 1, Len(numbers) - 1)
         IN  /\ target >= number
             /\ \/ /\ number # 0
                   /\ target % number = 0
                   /\ EquationPossible(target \div number, rest, concatenation_allowed)
                \/ EquationPossible(target - number, rest, concatenation_allowed)
                \/ /\ concatenation_allowed
                   /\ LET divisor == Pow10Digits(number)
                      IN  /\ (target - number) % divisor = 0
                          /\ EquationPossible((target - number) \div divisor, rest,
                                              concatenation_allowed)

\* str::split_once(": "): the text before and after the first ": "
SplitOnce(line) ==
    LET at == {i \in 1..(Len(line) - 1) : line[i] = ":" /\ line[i + 1] = " "}
    IN  IF at = {} THEN None
        ELSE LET i == CHOOSE i \in at : \A j \in at : i <= j
             IN  Some(<<SubSeq(line, 1, i - 1), SubSeq(line, i + 2, Len(line))>>)

\* the closure of filter_map in equations_from_file, for one line
ParseEquation(line) ==
    LET sp == SplitOnce(line)
    IN  IF sp = None THEN [panic |-> "", eq |-> None]
        ELSE LET t == ParseNumber(Trim(sp[1][1]))
                 ws == SplitWhitespace(sp[1][2])
             IN  IF t = None THEN [panic |-> "Error parsing target number.", eq |-> None]
                 ELSE IF \E k \in 1..Len(ws) : ParseNumber(Trim(ws[k])) = None
                 THEN [panic |-> "Error parsing numbers.", eq |-> None]
                 ELSE [panic |-> "",
                       eq |-> Some([target |-> t[1],
                                    numbers |-> [k \in 1..Len(ws) |-> ParseNumber(Trim(ws[k]))[1]]])]

\* the lines of an input file: a target, a separator, numbers
TargetWords07 == {<<"4">>, <<"x">>}
NumberWords07 == {<<"2">>, <<"x">>}
Separators07 == {<<":", " ">>, <<" ">>, <<":">>}

Lines07 ==
    {t \o sep \o JoinWords(ns, <<" ">>) :
        t \in TargetWords07, sep \in Separators07, ns \in SeqsOf(NumberWords07, 0, MaxNums07)}

Files07 ==
    {[exists |-> FALSE, lines |-> <<>>]}
    \cup {[exists |-> TRUE, lines |-> ls] : ls \in SeqsOf(Lines07, 0, MaxLines07)}

Init07 ==
    /\ pc07 = "call"
    /\ part07 \in {1, 2}
    /\ file07 \in Files07
    /\ line07 = 1
    /\ equations07 = <<>>
    /\ eq07 = 1
    /\ sum07 = 0
    /\ ret07 = None
    /\ diag07 = ""

Idle07 ==
    /\ pc07 = "idle"
    /\ part07 = 0
    /\ file07 = [exists |-> FALSE, lines |-> <<>>]
    /\ line07 = 0
    /\ equations07 = <<>>
    /\ eq07 = 0
    /\ sum07 = 0
    /\ ret07 = None
    /\ diag07 = ""

\* lines_from_file(path)
Open07 ==
    /\ pc07 = "call"
    /\ IF file07.exists
       THEN pc07' = "reading" /\ diag07' = diag07
       ELSE pc07' = "panicked" /\ diag07' = "Failed to open file."
    /\ UNCHANGED <<part07, file07, line07, equations07, eq07, sum07, ret07>>
    /\ UNCHANGED others07

\* equations_from_file: one line through filter_map
ReadLine07 ==
    /\ pc07 = "reading"
    /\ line07 <= Len(file07.lines)
    /\ LET r == ParseEquation(file07.lines[line07])
       IN  IF r.panic # ""
           THEN /\ pc07' = "panicked"
                /\ diag07' = r.panic
                /\ UNCHANGED <<line07, equations07>>
           ELSE /\ equations07' = equations07 \o r.eq
                /\ line07' = line07 + 1
                /\ UNCHANGED <<pc07, diag07>>
    /\ UNCHANGED <<part07, file07, eq07, sum07, ret07>>
    /\ UNCHANGED others07

\* equations_from_file: collect_vec at the end of the lines
EndOfFile07 ==
    /\ pc07 = "reading"
    /\ line07 > Len(file07.lines)
    /\ pc07' = "summing"
    /\ UNCHANGED <<part07, file07, line07, equations07, eq07, sum07, ret07, diag07>>
    /\ UNCHANGED others07

\* part1 / part2: one equation through filter, map and sum; numbers[len - 1]
\* of an empty list panics
FilterEquation07 ==
    /\ pc07 = "summing"
    /\ eq07 <= Len(equations07)
    /\ LET e == equations07[eq07]
       IN  IF e.numbers = <<>>
           THEN /\ pc07' = "panicked"
                /\ diag07' = "attempt to subtract with overflow"
                /\ UNCHANGED <<eq07, sum07>>
           ELSE /\ sum07' = IF EquationPossible(e.target, e.numbers, part07 = 2)
                            THEN sum07 + e.target ELSE sum07
                /\ eq07' = eq07 + 1
                /\ UNCHANGED <<pc07, diag07>>
    /\ UNCHANGED <<part07, file07, line07, equations07, ret07>>
    /\ UNCHANGED others07

Return07 ==
    /\ pc07 = "summing"
    /\ eq07 > Len(equations07)
    /\ pc07' = "returned"
    /\ ret07' = Some(sum07)
    /\ UNCHANGED <<part07, file07, line07, equations07, eq07, sum07, diag07>>
    /\ UNCHANGED others07

Next07 == Open07 \/ ReadLine07 \/ EndOfFile07 \/ FilterEquation07 \/ Return07

(* one call of equation_possible, as the tests make it                     *)

MaxTarget07 == 12
MaxNumber07 == 10
MaxLen07 == 3

\* decimal digits of a number, and the number of a digit string
RECURSIVE ToDigits(_)
ToDigits(x) == IF x < 10 THEN <<x>> ELSE Append(ToDigits(x \div 10), x % 10)

RECURSIVE FromDigits(_)
FromDigits(ds) ==
    IF ds = <<>> THEN 0 ELSE 10 * FromDigits(SubSeq(ds, 1, Len(ds) - 1)) + ds[Len(ds)]

\* the values of a list under every choice of operators between consecutive
\* numbers, evaluated strictly left to right
RECURSIVE Values(_, _)
Values(numbers, concat) ==
    IF Len(numbers) = 1 THEN {numbers[1]}
    ELSE LET last == numbers[Len(numbers)]
             prev == Values(SubSeq(numbers, 1, Len(numbers) - 1), concat)
         IN  {v + last : v \in prev} \cup {v * last : v \in prev}
             \cup (IF concat THEN {FromDigits(ToDigits(v) \o ToDigits(last)) : v \in prev}
                   ELSE {})

InitEq ==
    /\ pcEq = "call"
    /\ numbersEq \in SeqsOf(0..MaxNumber07, 1, MaxLen07)
    /\ concatEq \in BOOLEAN
    /\ targetEq \in (0..MaxTarget07) \cup Values(numbersEq, TRUE)
    /\ resEq = FALSE

IdleEq ==
    /\ pcEq = "idle"
    /\ numbersEq = <<>>
    /\ concatEq = FALSE
    /\ targetEq = 0
    /\ resEq = FALSE

CallEquationPossible ==
    /\ pcEq = "call"
    /\ pcEq' = "returned"
    /\ resEq' = EquationPossible(targetEq, numbersEq, concatEq)
    /\ UNCHANGED <<targetEq, numbersEq, concatEq>>
    /\ UNCHANGED othersEq

NextEq == CallEquationPossible

-----------------------------------------------------------------------------
(* bin/day06.rs                                                            *)

MaxW06 == 3
MaxH06 == 3

Directions06 == {"UP", "RIGHT", "DOWN", "LEFT"}

\* Direction::rotate
Rotate06(dir) ==
    CASE dir = "UP" -> "RIGHT"
      [] dir = "RIGHT" -> "DOWN"
      [] dir = "DOWN" -> "LEFT"
      [] dir = "LEFT" -> "UP"

\* Position::step
Step06(pos, dir) ==
    CASE dir = "UP" -> <<pos[1], pos[2] - 1>>
      [] dir = "RIGHT" -> <<pos[1] + 1, pos[2]>>
      [] dir = "DOWN" -> <<pos[1], pos[2] + 1>>
      [] dir = "LEFT" -> <<pos[1] - 1, pos[2]>>

\* MazeState::in_bounds
InBounds06(pos, bounds) ==
    pos[1] >= 0 /\ pos[2] >= 0 /\ pos[1] < bounds[1] /\ pos[2] < bounds[2]

\* MazeState::step_guard: the guard after the call and the value returned
StepGuard06(guard, obstacles, bounds) ==
    LET next_pos == Step06(guard.pos, guard.dir)
    IN  IF next_pos \in obstacles
        THEN [guard |-> [pos |-> guard.pos, dir |-> Rotate06(guard.dir)],
              ret |-> Some(guard.pos)]
        ELSE IF InBounds06(next_pos, bounds)
        THEN [guard |-> [pos |-> next_pos, dir |-> guard.dir], ret |-> Some(next_pos)]
        ELSE [guard |-> guard, ret |-> None]

Cells06(bounds) == (0..(bounds[1] - 1)) \X (0..(bounds[2] - 1))

\* read_maze: the grid of the file, '#' cells, and the guard at the cell of its
\* character (a file without one leaves the guard at (0, 0) facing UP)
Init06 ==
    /\ pc06 = "call"
    /\ bounds06 \in (1..MaxW06) \X (1..MaxH06)
    /\ obstacles06 \in SUBSET Cells06(bounds06)
    /\ guard06 \in {[pos |-> p, dir |-> d] : p \in Cells06(bounds06) \ obstacles06,
                                              d \in Directions06}
                   \cup {[pos |-> <<0, 0>>, dir |-> "UP"]}
    /\ visited06 = {}
    /\ ret06 = None

Idle06 ==
    /\ pc06 = "idle"
    /\ bounds06 = <<0, 0>>
    /\ obstacles06 = {}
    /\ guard06 = [pos |-> <<0, 0>>, dir |-> "UP"]
    /\ visited06 = {}
    /\ ret06 = None

\* get_visited_positions: the set starts with the guard's position
StartWalk06 ==
    /\ pc06 = "call"
    /\ pc06' = "walking"
    /\ visited06' = {guard06.pos}
    /\ UNCHANGED <<guard06, obstacles06, bounds06, ret06>>
    /\ UNCHANGED others06

\* get_visited_positions: one turn of the loop, step_guard returned Some(new_pos)
WalkStep06 ==
    /\ pc06 = "walking"
    /\ LET r == StepGuard06(guard06, obstacles06, bounds06)
       IN  /\ r.ret # None
           /\ guard06' = r.guard
           /\ visited06' = visited06 \cup {r.ret[1]}
    /\ UNCHANGED <<pc06, obstacles06, bounds06, ret06>>
    /\ UNCHANGED others06

\* get_visited_positions: step_guard returned None; part1 returns visited.len()
LeaveGrid06 ==
    /\ pc06 = "walking"
    /\ StepGuard06(guard06, obstacles06, bounds06).ret = None
    /\ pc06' = "returned"
    /\ ret06' = Some(Cardinality(visited06))
    /\ UNCHANGED <<guard06, obstacles06, bounds06, visited06>>
    /\ UNCHANGED others06

Next06 == StartWalk06 \/ WalkStep06 \/ LeaveGrid06

-----------------------------------------------------------------------------
(* bin/day09.rs                                                            *)

MaxDigit09 == 2
MaxMapLen09 == 5

\* DataBlock::File { id, size } and DataBlock::Free { size }
File09(id, size) == [kind |-> "File", id |-> id, size |-> size]
Free09(size) == [kind |-> "Free", size |-> size]

\* blocks_from_string: the digits of the line, alternately a file and a free span
BlocksFromString(string) ==
    LET sizes == SelectSeq(string, IsDigit)
    IN  [i \in 1..Len(sizes) |->
            IF (i - 1) % 2 = 0 THEN File09((i - 1) \div 2, DigitVal(sizes[i]))
            ELSE Free09(DigitVal(sizes[i]))]

\* partial_checksum: id * (start_position + ... + (start_position + size - 1))
RECURSIVE RangeSum(_, _)
RangeSum(start, size) == IF size = 0 THEN 0 ELSE start + RangeSum(start + 1, size - 1)

PartialChecksum(id, start_position, size) == id * RangeSum(start_position, size)

\* checksum
RECURSIVE ChecksumFrom(_, _, _)
ChecksumFrom(harddisk, i, seeker) ==
    IF i > Len(harddisk) THEN 0
    ELSE LET block == harddisk[i]
         IN  (IF block.kind = "File" THEN PartialChecksum(block.id, seeker, block.size) ELSE 0)
             + ChecksumFrom(harddisk, i + 1, seeker + block.size)

Checksum(harddisk) == ChecksumFrom(harddisk, 1, 0)

Init09 ==
    /\ pc09 = "call"
    /\ map09 \in SeqsOf({Digits[d + 1] : d \in 0..MaxDigit09}, 1, MaxMapLen09)
    /\ harddisk09 = <<>>
    /\ left09 = 0
    /\ right09 = 0
    /\ compressed09 = <<>>
    /\ freeLeft09 = None
    /\ filesRight09 = None
    /\ ret09 = None

Idle09 ==
    /\ pc09 = "idle"
    /\ map09 = <<>>
    /\ harddisk09 = <<>>
    /\ left09 = 0
    /\ right09 = 0
    /\ compressed09 = <<>>
    /\ freeLeft09 = None
    /\ filesRight09 = None
    /\ ret09 = None

\* part1: blocks_from_string, and the head of compressed (indices count from 0)
Start09 ==
    /\ pc09 = "call"
    /\ pc09' = "loop"
    /\ harddisk09' = BlocksFromString(map09)
    /\ left09' = 0
    /\ right09' = Len(BlocksFromString(map09)) - 1
    /\ compressed09' = <<>>
    /\ freeLeft09' = None
    /\ filesRight09' = None
    /\ UNCHANGED <<map09, ret09>>
    /\ UNCHANGED others09

\* compressed, loop arm (_, Free): the right index steps over a free span
SkipFreeRight09 ==
    /\ pc09 = "loop"
    /\ left09 < right09
    /\ harddisk09[right09 + 1].kind = "Free"
    /\ right09' = right09 - 1
    /\ UNCHANGED <<pc09, map09, harddisk09, left09, compressed09, freeLeft09, filesRight09, ret09>>
    /\ UNCHANGED others09

\* compressed, loop arm (File, _): the left file is copied
CopyLeftFile09 ==
    /\ pc09 = "loop"
    /\ left09 < right09
    /\ harddisk09[right09 + 1].kind # "Free"
    /\ harddisk09[left09 + 1].kind = "File"
    /\ compressed09' = Append(compressed09, File09(harddisk09[left09 + 1].id,
                                                    harddisk09[left09 + 1].size))
    /\ left09' = left09 + 1
    /\ UNCHANGED <<pc09, map09, harddisk09, right09, freeLeft09, filesRight09, ret09>>
    /\ UNCHANGED others09

\* compressed, loop arm (Free, File): blocks of the right file fill the left span
MoveBlocks09 ==
    /\ pc09 = "loop"
    /\ left09 < right09
    /\ harddisk09[right09 + 1].kind = "File"
    /\ harddisk09[left09 + 1].kind = "Free"
    /\ LET free_size == IF freeLeft09 # None THEN freeLeft09[1]
                        ELSE harddisk09[left09 + 1].size
           file_size == IF filesRight09 # None THEN filesRight09[1]
                        ELSE harddisk09[right09 + 1].size
           movable_files == Min(free_size, file_size)
           new_free_size == free_size - movable_files
           new_file_size == file_size - movable_files
       IN  /\ compressed09' = Append(compressed09,
                                     File09(harddisk09[right09 + 1].id, movable_files))
           /\ IF new_free_size = 0
              THEN left09' = left09 + 1 /\ freeLeft09' = None
              ELSE left09' = left09 /\ freeLeft09' = Some(new_free_size)
           /\ IF new_file_size = 0
              THEN right09' = right09 - 1 /\ filesRight09' = None
              ELSE right09' = right09 /\ filesRight09' = Some(new_file_size)
    /\ UNCHANGED <<pc09, map09, harddisk09, ret09>>
    /\ UNCHANGED others09

\* compressed, after the loop: the rest of the right file, or else the block at
\* the left index when it is a file; part1 returns the checksum
Finish09 ==
    /\ pc09 = "loop"
    /\ ~(left09 < right09)
    /\ LET final ==
            IF filesRight09 # None
            THEN (IF harddisk09[right09 + 1].kind = "File"
                  THEN Append(compressed09, File09(harddisk09[right09 + 1].id, filesRight09[1]))
                  ELSE compressed09)
            ELSE IF harddisk09[left09 + 1].kind = "File"
            THEN Append(compressed09, File09(harddisk09[left09 + 1].id,
                                             harddisk09[left09 + 1].size))
            ELSE compressed09
       IN  /\ compressed09' = final
           /\ ret09' = Some(Checksum(final))
    /\ pc09' = "returned"
    /\ UNCHANGED <<map09, harddisk09, left09, right09, freeLeft09, filesRight09>>
    /\ UNCHANGED others09

Next09 == Start09 \/ SkipFreeRight09 \/ CopyLeftFile09 \/ MoveBlocks09 \/ Finish09

-----------------------------------------------------------------------------
\* bin/day19.rs: PatternTrie (insert, contains, can_make, ways_to_make)

\* bounds
MaxPatLen19 == 2
MaxTowels19 == 3
MaxDesignLen19 == 4

\* enum Stripe, cut down to two of the five colours
Stripes19 == {"w", "u"}

Patterns19 == SeqsOf(Stripes19, 0, MaxPatLen19)
Designs19 == SeqsOf(Stripes19, 0, MaxDesignLen19)

\* A trie is the function from the path of each of its nodes to the node's
\* is_end_of_pattern; node.children has the key s exactly when the path of
\* the node extended by s is a node.
PatternTrieNew == (<< >> :> TRUE)

\* an entry-less variant of or_insert: the new node is an end of pattern
OrInsertEnd(trie, path) ==
    IF path \in DOMAIN trie THEN trie ELSE trie @@ (path :> TRUE)

\* node.children.entry(stripe).or_insert(PatternTrieNode::new(false))
OrInsert(trie, path) ==
    IF path \in DOMAIN trie THEN trie ELSE trie @@ (path :> FALSE)

RECURSIVE InsertFrom(_, _, _)
InsertFrom(trie, pattern, i) ==
    IF i = Len(pattern)
    THEN [trie EXCEPT ![pattern] = TRUE]
    ELSE InsertFrom(OrInsert(trie, SubSeq(pattern, 1, i + 1)), pattern, i + 1)

Insert(trie, pattern) == InsertFrom(trie, pattern, 0)

RECURSIVE ContainsFrom(_, _, _)
ContainsFrom(trie, pattern, i) ==
    IF i = Len(pattern)
    THEN trie[pattern]
    ELSE IF SubSeq(pattern, 1, i + 1) \in DOMAIN trie
         THEN ContainsFrom(trie, pattern, i + 1)
         ELSE FALSE

Contains(trie, pattern) == ContainsFrom(trie, pattern, 0)

RECURSIVE CanMake(_, _)
CanMake(trie, pattern) ==
    IF Contains(trie, pattern) THEN TRUE
    ELSE IF Len(pattern) = 1 THEN FALSE
    ELSE \E i \in 1..(Len(pattern) - 1) :
            /\ Contains(trie, SubSeq(pattern, i + 1, Len(pattern)))
            /\ CanMake(trie, SubSeq(pattern, 1, i))

\* a search that never splits the pattern
WaysNoSplit(trie, pattern, cache) ==
    [n |-> IF Contains(trie, pattern) THEN 1 ELSE 0, cache |-> cache]

\* cached_ways_to_make gives back the number and leaves the cache changed;
\* then_some evaluates the recursive call for every split, contained or not
RECURSIVE CachedWaysToMake(_, _, _)
RECURSIVE SplitSum(_, _, _, _, _)
SplitSum(trie, pattern, i, cache, sum) ==
    IF i > Len(pattern)
    THEN [n |-> sum, cache |-> cache]
    ELSE LET left == SubSeq(pattern, 1, i)
             right == SubSeq(pattern, i + 1, Len(pattern))
             sub == CachedWaysToMake(trie, right, cache)
         IN  SplitSum(trie, pattern, i + 1, sub.cache,
                      IF Contains(trie, left) THEN sum + sub.n ELSE sum)

CachedWaysToMake(trie, pattern, cache) ==
    IF pattern \in DOMAIN cache
    THEN [n |-> cache[pattern], cache |-> cache]
    ELSE IF Len(pattern) <= 1
    THEN [n |-> IF Contains(trie, pattern) THEN 1 ELSE 0, cache |-> cache]
    ELSE LET r == SplitSum(trie, pattern, 1, cache, 0)
         IN  [n |-> r.n, cache |-> r.cache @@ (pattern :> r.n)]

EmptyCache19 == [p \in {} |-> 0]

WaysToMake(trie, pattern) == CachedWaysToMake(trie, pattern, EmptyCache19).n

Init19 ==
    /\ trie19 = PatternTrieNew
    /\ towels19 = {}
    /\ fn19 = ""
    /\ arg19 = << >>
    /\ ret19 = None

Idle19 ==
    /\ trie19 = << >>
    /\ towels19 = {}
    /\ fn19 = ""
    /\ arg19 = << >>
    /\ ret19 = None

\* trie.insert(pattern); towels19 is the set of the patterns inserted so far
CallInsert19 ==
    /\ DOMAIN trie19 # {}
    /\ \E pattern \in Patterns19 :
        /\ Cardinality(towels19 \cup {pattern}) <= MaxTowels19
        /\ trie19' = Insert(trie19, pattern)
        /\ towels19' = towels19 \cup {pattern}
    /\ fn19' = ""
    /\ arg19' = << >>
    /\ ret19' = None
    /\ UNCHANGED others19

CallContains19 ==
    /\ DOMAIN trie19 # {}
    /\ ret19 = None
    /\ \E pattern \in Designs19 :
        /\ arg19' = pattern
        /\ ret19' = Some(Contains(trie19, pattern))
    /\ fn19' = "contains"
    /\ UNCHANGED <<trie19, towels19>>
    /\ UNCHANGED others19

CallCanMake19 ==
    /\ DOMAIN trie19 # {}
    /\ ret19 = None
    /\ \E pattern \in Designs19 :
        /\ arg19' = pattern
        /\ ret19' = Some(CanMake(trie19, pattern))
    /\ fn19' = "can_make"
    /\ UNCHANGED <<trie19, towels19>>
    /\ UNCHANGED others19

CallWaysToMake19 ==
    /\ DOMAIN trie19 # {}
    /\ ret19 = None
    /\ \E pattern \in Designs19 :
        /\ arg19' = pattern
        /\ ret19' = Some(WaysToMake(trie19, pattern))
    /\ fn19' = "ways_to_make"
    /\ UNCHANGED <<trie19, towels19>>
    /\ UNCHANGED others19

\* the caller has used the value a call returned
DropResult19 ==
    /\ ret19 # None
    /\ fn19' = ""
    /\ arg19' = << >>
    /\ ret19' = None
    /\ UNCHANGED <<trie19, towels19>>
    /\ UNCHANGED others19

Next19 ==
    \/ CallInsert19
    \/ DropResult19
    \/ CallContains19
    \/ CallCanMake19
    \/ CallWaysToMake19

-----------------------------------------------------------------------------
\* bin/day16.rs: Maze::score_and_best_seats

\* bounds
MaxW16 == 3
MaxH16 == 2

\* Direction::turned_right
TurnedRight(dir) ==
    CASE dir = "UP" -> "RIGHT"
      [] dir = "RIGHT" -> "DOWN"
      [] dir = "DOWN" -> "LEFT"
      [] dir = "LEFT" -> "UP"

\* Direction::turned_left
TurnedLeft(dir) ==
    CASE dir = "UP" -> "LEFT"
      [] dir = "LEFT" -> "DOWN"
      [] dir = "DOWN" -> "RIGHT"
      [] dir = "RIGHT" -> "UP"

\* ValidPosition::try_step: Position::step, then Position::in_bounds
TryStep(pos, dir, bounds) ==
    LET next == Step06(pos, dir)
    IN  IF InBounds06(next, bounds) THEN Some(next) ELSE None

Positions16(bounds) == (0..(bounds[1] - 1)) \X (0..(bounds[2] - 1))

\* Maze::next_steps
NextSteps(reindeer, field, bounds) ==
    LET turns == {[pos |-> reindeer.pos, dir |-> TurnedRight(reindeer.dir),
                   score |-> reindeer.score + 1000, past |-> reindeer.past],
                  [pos |-> reindeer.pos, dir |-> TurnedLeft(reindeer.dir),
                   score |-> reindeer.score + 1000, past |-> reindeer.past]}
        pos == TryStep(reindeer.pos, reindeer.dir, bounds)
    IN  IF pos # None /\ field[pos[1]] = "Empty"
        THEN turns \cup {[pos |-> pos[1], dir |-> reindeer.dir,
                          score |-> reindeer.score + 1,
                          past |-> reindeer.past \cup {pos[1]}]}
        ELSE turns

\* a map that also drops the entries of equal score
NotAbove(min_score, score) == min_score <= score

\* min_score_map: *min_score_entry.get() < reindeer.score
Below(min_score, score) == min_score < score

\* BinaryHeap<Reverse<Reindeer>>::pop gives an entry of the least score; the
\* order among entries of equal score is not fixed by Ord for Reindeer
CanPop(reindeer, reindeers) ==
    /\ reindeer \in BagToSet(reindeers)
    /\ \A other \in BagToSet(reindeers) : reindeer.score <= other.score

\* step 1 of the loop body: the reindeer is on the end tile
Breaks(reindeer, endPos, min_total) ==
    /\ reindeer.pos = endPos
    /\ min_total # None
    /\ min_total[1] < reindeer.score

MinTotalAfter(reindeer, endPos, min_total) ==
    IF reindeer.pos = endPos /\ min_total = None
    THEN Some(reindeer.score) ELSE min_total

BestSeatsAfter(reindeer, endPos, best_seats) ==
    IF reindeer.pos = endPos THEN best_seats \cup reindeer.past ELSE best_seats

\* step 2 of the loop body: continue
Pruned(reindeer, min_score_map) ==
    /\ <<reindeer.pos, reindeer.dir>> \in DOMAIN min_score_map
    /\ Below(min_score_map[<<reindeer.pos, reindeer.dir>>], reindeer.score)

\* load_maze: one S and one E, both Empty fields
Init16 ==
    /\ pc16 = "start"
    /\ bounds16 \in (1..MaxW16) \X (1..MaxH16)
    /\ field16 \in [Positions16(bounds16) -> {"Empty", "Wall"}]
    /\ start16 \in Positions16(bounds16)
    /\ end16 \in Positions16(bounds16)
    /\ start16 # end16
    /\ field16[start16] = "Empty"
    /\ field16[end16] = "Empty"
    /\ reindeers16 = EmptyBag
    /\ min_score_map16 = << >>
    /\ min_total16 = None
    /\ best_seats16 = {}
    /\ ret16 = None

Idle16 ==
    /\ pc16 = "idle"
    /\ bounds16 = <<0, 0>>
    /\ field16 = << >>
    /\ start16 = <<0, 0>>
    /\ end16 = <<0, 0>>
    /\ reindeers16 = EmptyBag
    /\ min_score_map16 = << >>
    /\ min_total16 = None
    /\ best_seats16 = {}
    /\ ret16 = None

\* score_and_best_seats up to the loop
Start16 ==
    /\ pc16 = "start"
    /\ reindeers16' = SetToBag({[pos |-> start16, dir |-> "RIGHT", score |-> 0,
                                 past |-> {start16}]})
    /\ pc16' = "loop"
    /\ UNCHANGED <<bounds16, field16, start16, end16, min_score_map16,
                   min_total16, best_seats16, ret16>>
    /\ UNCHANGED others16

\* a turn of the loop that ends at break; the function returns
Break16 ==
    /\ pc16 = "loop"
    /\ \E reindeer \in BagToSet(reindeers16) :
        /\ CanPop(reindeer, reindeers16)
        /\ Breaks(reindeer, end16, min_total16)
        /\ reindeers16' = reindeers16 (-) SetToBag({reindeer})
    /\ ret16' = Some(<<min_total16[1], Cardinality(best_seats16)>>)
    /\ pc16' = "returned"
    /\ UNCHANGED <<bounds16, field16, start16, end16, min_score_map16,
                   min_total16, best_seats16>>
    /\ UNCHANGED others16

\* a turn of the loop that ends at continue
Continue16 ==
    /\ pc16 = "loop"
    /\ \E reindeer \in BagToSet(reindeers16) :
        /\ CanPop(reindeer, reindeers16)
        /\ ~Breaks(reindeer, end16, min_total16)
        /\ Pruned(reindeer, min_score_map16)
        /\ reindeers16' = reindeers16 (-) SetToBag({reindeer})
        /\ min_total16' = MinTotalAfter(reindeer, end16, min_total16)
        /\ best_seats16' = BestSeatsAfter(reindeer, end16, best_seats16)
    /\ UNCHANGED <<pc16, bounds16, field16, start16, end16, min_score_map16, ret16>>
    /\ UNCHANGED others16

\* a turn of the loop that pushes the next steps
Expand16 ==
    /\ pc16 = "loop"
    /\ \E reindeer \in BagToSet(reindeers16) :
        /\ CanPop(reindeer, reindeers16)
        /\ ~Breaks(reindeer, end16, min_total16)
        /\ ~Pruned(reindeer, min_score_map16)
        /\ min_total16' = MinTotalAfter(reindeer, end16, min_total16)
        /\ best_seats16' = BestSeatsAfter(reindeer, end16, best_seats16)
        /\ min_score_map16' =
             [key \in DOMAIN min_score_map16 \cup {<<reindeer.pos, reindeer.dir>>} |->
                IF key = <<reindeer.pos, reindeer.dir>> THEN reindeer.score
                ELSE min_score_map16[key]]
        /\ reindeers16' = (reindeers16 (-) SetToBag({reindeer}))
                            (+) SetToBag(NextSteps(reindeer, field16, bounds16))
    /\ UNCHANGED <<pc16, bounds16, field16, start16, end16, ret16>>
    /\ UNCHANGED others16

\* pop gives None: the result, or panic!("No path found!")
HeapEmpty16 ==
    /\ pc16 = "loop"
    /\ reindeers16 = EmptyBag
    /\ IF min_total16 # None
       THEN /\ ret16' = Some(<<min_total16[1], Cardinality(best_seats16)>>)
            /\ pc16' = "returned"
       ELSE /\ ret16' = None
            /\ pc16' = "panicked"
    /\ UNCHANGED <<bounds16, field16, start16, end16, reindeers16, min_score_map16,
                   min_total16, best_seats16>>
    /\ UNCHANGED others16

Next16 ==
    \/ Start16
    \/ Break16
    \/ Continue16
    \/ Expand16
    \/ HeapEmpty16

-----------------------------------------------------------------------------
\* bin/day18.rs: find_blocking_byte, with MemorySpace::shortest_path inside

\* bounds
MaxW18 == 3
MaxH18 == 3
MaxCorruptions18 == 3

\* Grid::new(bounds, value): every position of the bounds holds the value
GridNew(bounds, value) == [pos \in Positions16(bounds) |-> value]

\* MemorySpace::new
MemorySpaceNew(width, height) ==
    [field |-> GridNew(<<width, height>>, "Working"),
     bounds |-> <<width, height>>,
     start |-> <<0, 0>>,
     end |-> <<width - 1, height - 1>>]

\* MemorySpace::corrupt
Corrupt(memory, pos) ==
    [memory EXCEPT !.field = [memory.field EXCEPT ![pos] = "Corrupted"]]

\* MemorySpace::bulk_corrupt
RECURSIVE BulkCorrupt(_, _)
BulkCorrupt(memory, corruptions) ==
    IF corruptions = << >> THEN memory
    ELSE BulkCorrupt(Corrupt(memory, Head(corruptions)), Tail(corruptions))

Abs(n) == IF n < 0 THEN -n ELSE n

\* MemorySpace::heuristic
Heuristic(memory, pos) ==
    Abs(pos[1] - memory.end[1]) + Abs(pos[2] - memory.end[2])

\* Position::neighbours
Neighbours(pos) ==
    {<<pos[1] + 1, pos[2]>>, <<pos[1] - 1, pos[2]>>,
     <<pos[1], pos[2] + 1>>, <<pos[1], pos[2] - 1>>}

\* Position::valid_neighbours
ValidNeighbours(pos, bounds) == {n \in Neighbours(pos) : InBounds06(n, bounds)}

\* MemorySpace::next_steps
NextSteps18(memory, runner) ==
    {[pos |-> pos, time_elapsed |-> runner.time_elapsed + 1,
      time_expected |-> Heuristic(memory, pos)] :
        pos \in {n \in ValidNeighbours(runner.pos, memory.bounds) :
                    memory.field[n] = "Working"}}

\* Runner::score
Score(runner) == runner.time_elapsed + runner.time_expected

\* BinaryHeap<Reverse<Runner>>::pop: an entry of the least score, any of them
CanPop18(runner, runners) ==
    /\ runner \in BagToSet(runners)
    /\ \A other \in BagToSet(runners) : Score(runner) <= Score(other)

\* load_corruptions: a list of positions of the memory space, not empty
Init18 ==
    /\ pc18 = "start"
    /\ size18 \in (1..MaxW18) \X (1..MaxH18)
    /\ corruptions18 \in SeqsOf(Positions16(size18), 1, MaxCorruptions18)
    /\ left18 = 0
    /\ right18 = 0
    /\ mid18 = 0
    /\ memory18 = << >>
    /\ runners18 = EmptyBag
    /\ fastest_arrival_map18 = << >>
    /\ ret18 = None

Idle18 ==
    /\ pc18 = "idle"
    /\ size18 = <<0, 0>>
    /\ corruptions18 = << >>
    /\ left18 = 0
    /\ right18 = 0
    /\ mid18 = 0
    /\ memory18 = << >>
    /\ runners18 = EmptyBag
    /\ fastest_arrival_map18 = << >>
    /\ ret18 = None

\* find_blocking_byte up to the loop
Start18 ==
    /\ pc18 = "start"
    /\ left18' = 0
    /\ right18' = Len(corruptions18) - 1
    /\ pc18' = "search"
    /\ UNCHANGED <<size18, corruptions18, mid18, memory18, runners18,
                   fastest_arrival_map18, ret18>>
    /\ UNCHANGED others18

\* a turn of the while loop up to the call of shortest_path, and shortest_path
\* up to its loop
Probe18 ==
    /\ pc18 = "search"
    /\ left18 < right18
    /\ LET mid == (left18 + right18) \div 2
           memory == BulkCorrupt(MemorySpaceNew(size18[1], size18[2]),
                                 SubSeq(corruptions18, 1, mid + 1))
       IN  /\ mid18' = mid
           /\ memory18' = memory
           /\ runners18' = SetToBag({[pos |-> memory.start, time_elapsed |-> 0,
                                      time_expected |-> Heuristic(memory, memory.start)]})
    /\ fastest_arrival_map18' = << >>
    /\ pc18' = "path"
    /\ UNCHANGED <<size18, corruptions18, left18, right18, ret18>>
    /\ UNCHANGED others18

\* shortest_path returns Some(time_elapsed): left = mid + 1
Arrive18 ==
    /\ pc18 = "path"
    /\ \E runner \in BagToSet(runners18) :
        /\ CanPop18(runner, runners18)
        /\ runner.pos = memory18.end
    /\ left18' = mid18 + 1
    /\ runners18' = EmptyBag
    /\ fastest_arrival_map18' = << >>
    /\ pc18' = "search"
    /\ UNCHANGED <<size18, corruptions18, right18, mid18, memory18, ret18>>
    /\ UNCHANGED others18

\* shortest_path: a turn of its loop that ends at continue
Continue18 ==
    /\ pc18 = "path"
    /\ \E runner \in BagToSet(runners18) :
        /\ CanPop18(runner, runners18)
        /\ runner.pos # memory18.end
        /\ runner.pos \in DOMAIN fastest_arrival_map18
        /\ fastest_arrival_map18[runner.pos] <= runner.time_elapsed
        /\ runners18' = runners18 (-) SetToBag({runner})
    /\ UNCHANGED <<pc18, size18, corruptions18, left18, right18, mid18, memory18,
                   fastest_arrival_map18, ret18>>
    /\ UNCHANGED others18

\* shortest_path: a turn of its loop that pushes the next steps
Expand18 ==
    /\ pc18 = "path"
    /\ \E runner \in BagToSet(runners18) :
        /\ CanPop18(runner, runners18)
        /\ runner.pos # memory18.end
        /\ ~ (/\ runner.pos \in DOMAIN fastest_arrival_map18
              /\ fastest_arrival_map18[runner.pos] <= runner.time_elapsed)
        /\ fastest_arrival_map18' =
             [pos \in DOMAIN fastest_arrival_map18 \cup {runner.pos} |->
                IF pos = runner.pos THEN runner.time_elapsed
                ELSE fastest_arrival_map18[pos]]
        /\ runners18' = (runners18 (-) SetToBag({runner}))
                            (+) SetToBag(NextSteps18(memory18, runner))
    /\ UNCHANGED <<pc18, size18, corruptions18, left18, right18, mid18, memory18, ret18>>
    /\ UNCHANGED others18

\* shortest_path returns None: right = mid
NoPath18 ==
    /\ pc18 = "path"
    /\ runners18 = EmptyBag
    /\ right18' = mid18
    /\ fastest_arrival_map18' = << >>
    /\ pc18' = "search"
    /\ UNCHANGED <<size18, corruptions18, left18, mid18, memory18, runners18, ret18>>
    /\ UNCHANGED others18

\* the while loop ends: find_blocking_byte returns right
Return18 ==
    /\ pc18 = "search"
    /\ ~(left18 < right18)
    /\ ret18' = Some(right18)
    /\ pc18' = "returned"
    /\ UNCHANGED <<size18, corruptions18, left18, right18, mid18, memory18, runners18,
                   fastest_arrival_map18>>
    /\ UNCHANGED others18

Next18 ==
    \/ Start18
    \/ Probe18
    \/ Arrive18
    \/ Continue18
    \/ Expand18
    \/ NoPath18
    \/ Return18

-----------------------------------------------------------------------------
\* bin/day21.rs: a numeric keypad driven through a chain of directional keypads

\* bounds
MaxDepth21 == 3
MaxCodeLen21 == 2

\* enum NumericKey, as the characters of From<NumericKey> for char
NumericKeys == {"0", "1", "2", "3", "4", "5", "6", "7", "8", "9", "A"}

\* enum DirectionalKey
DirectionalKeys == {"Up", "A", "Left", "Down", "Right"}

\* From<NumericKey> for IntVec2D<i32>
NumericPos(k) ==
    IF k = "A" THEN <<2, 0>>
    ELSE IF k = "0" THEN <<1, 0>>
    ELSE <<(DigitVal(k) - 1) % 3, ((DigitVal(k) - 1) \div 3) + 1>>

\* From<DirectionalKey> for IntVec2D<i32>
DirectionalPos(k) ==
    CASE k = "Up" -> <<1, 1>>
      [] k = "A" -> <<2, 1>>
      [] k = "Left" -> <<0, 0>>
      [] k = "Down" -> <<1, 0>>
      [] k = "Right" -> <<2, 0>>

\* the keypad of a Keypad<T> is named by its T: "Numeric" or "Directional"
KeyPos(type, k) == IF type = "Numeric" THEN NumericPos(k) ELSE DirectionalPos(k)

\* TryFrom<IntVec2D<i32>> for NumericKey: Ok(key) as Some(key), Err as None
NumericTryFrom(pos) ==
    IF pos = <<2, 0>> THEN Some("A")
    ELSE IF pos = <<1, 0>> THEN Some("0")
    ELSE IF pos[1] >= 0 /\ pos[2] >= 1 /\ pos[1] <= 2 /\ pos[2] <= 3
    THEN Some(Digits[(3 * pos[2] + pos[1] - 2) + 1])
    ELSE None

\* TryFrom<IntVec2D<i32>> for DirectionalKey
DirectionalTryFrom(pos) ==
    CASE pos = <<1, 1>> -> Some("Up")
      [] pos = <<2, 1>> -> Some("A")
      [] pos = <<0, 0>> -> Some("Left")
      [] pos = <<1, 0>> -> Some("Down")
      [] pos = <<2, 0>> -> Some("Right")
      [] OTHER -> None

\* DirectionalKey::step
StepKey(key, pos) ==
    CASE key = "A" -> pos
      [] key = "Right" -> <<pos[1] + 1, pos[2]>>
      [] key = "Left" -> <<pos[1] - 1, pos[2]>>
      [] key = "Up" -> <<pos[1], pos[2] + 1>>
      [] key = "Down" -> <<pos[1], pos[2] - 1>>

\* a keypad without a gap
IsOnPad(type, pos) ==
    IF type = "Numeric"
    THEN pos[1] >= 0 /\ pos[2] >= 0 /\ pos[1] <= 2 /\ pos[2] <= 3
    ELSE pos[1] >= 0 /\ pos[2] >= 0 /\ pos[1] <= 2 /\ pos[2] <= 1

\* KeypadKey::is_valid for NumericKey and for DirectionalKey
IsValid(type, pos) ==
    IF type = "Numeric"
    THEN pos # <<0, 0>> /\ pos[1] >= 0 /\ pos[2] >= 0 /\ pos[1] <= 2 /\ pos[2] <= 3
    ELSE pos # <<0, 1>> /\ pos[1] >= 0 /\ pos[2] >= 0 /\ pos[1] <= 2 /\ pos[2] <= 1

\* KeypadKey::is_valid_sequence
RECURSIVE IsValidSequence(_, _, _)
IsValidSequence(type, start_pos, seq) ==
    IF seq = << >> THEN IsValid(type, start_pos)
    ELSE /\ IsValid(type, start_pos)
         /\ IsValidSequence(type, StepKey(Head(seq), start_pos), Tail(seq))

Count(seq, key) == Cardinality({i \in 1..Len(seq) : seq[i] = key})

\* KeypadKey::compute_key_sequences: the distinct orders of the |dx| moves
\* along x and the |dy| moves along y that are valid, each followed by A
ComputeKeySequences(type, t) ==
    LET start_pos == KeyPos(type, t[1])
        end_pos == KeyPos(type, t[2])
        dx == end_pos[1] - start_pos[1]
        dy == end_pos[2] - start_pos[2]
        xkey == IF dx >= 0 THEN "Right" ELSE "Left"
        ykey == IF dy >= 0 THEN "Up" ELSE "Down"
        permutations == {seq \in [1..(Abs(dx) + Abs(dy)) -> {xkey, ykey}] :
                            /\ Count(seq, xkey) = Abs(dx)
                            /\ Count(seq, ykey) = Abs(dy)}
    IN  {Append(seq, "A") : seq \in {p \in permutations :
                                        IsValidSequence(type, start_pos, p)}}

\* T::start_key
StartKey == "A"

\* the keypad at level 0 is the numeric one; the keypads at levels 1..depth
\* are directional, each the controller of the level before; the keypad at
\* level depth has no controller
TypeAt(level) == IF level = 0 THEN "Numeric" ELSE "Directional"

\* Keypad::new, for each keypad of the chain: empty caches
NewCaches(depth) == [level \in 1..(depth + 1) |-> << >>]

CacheInsert(caches, level, t, value) ==
    [caches EXCEPT ![level + 1] = @ @@ (t :> value)]

\* the order in which a HashSet of candidate sequences is iterated is not
\* fixed: tie names one of two orders, by the keys in the order of the enum
KeyRank(key) ==
    CASE key = "Up" -> 1
      [] key = "A" -> 2
      [] key = "Left" -> 3
      [] key = "Down" -> 4
      [] key = "Right" -> 5

RECURSIVE SeqBefore(_, _)
SeqBefore(a, b) ==
    IF a = << >> \/ b = << >> THEN a = << >> /\ b # << >>
    ELSE IF Head(a) = Head(b) THEN SeqBefore(Tail(a), Tail(b))
    ELSE KeyRank(Head(a)) < KeyRank(Head(b))

RECURSIVE IterationOrder(_, _)
IterationOrder(set, tie) ==
    IF set = {} THEN << >>
    ELSE LET first == CHOOSE a \in set : \A b \in set \ {a} :
                        IF tie = "ascending" THEN SeqBefore(a, b) ELSE SeqBefore(b, a)
         IN  <<first>> \o IterationOrder(set \ {first}, tie)

\* the transition into the i-th key of seq: tuple_windows over start_key, seq
TransitionAt(seq, i) == <<IF i = 1 THEN StartKey ELSE seq[i - 1], seq[i]>>

RECURSIVE MinForTransition(_, _, _, _, _)
RECURSIVE MinOverSequences(_, _, _, _, _, _)
RECURSIVE FlatMapTransitions(_, _, _, _, _, _, _)

\* Keypad::min_for_sequence of the keypad at the level: the sequence and the
\* caches of the chain after the call
MinForSequence(depth, tie, level, seq, caches) ==
    FlatMapTransitions(depth, tie, level, seq, 1, caches, << >>)

FlatMapTransitions(depth, tie, level, seq, i, caches, acc) ==
    IF i > Len(seq) THEN [seq |-> acc, caches |-> caches]
    ELSE LET r == MinForTransition(depth, tie, level, TransitionAt(seq, i), caches)
         IN  FlatMapTransitions(depth, tie, level, seq, i + 1, r.caches, acc \o r.seq)

\* map(|seq| controller.min_for_sequence(seq)).min_by_key(|seq| seq.len()):
\* the first of the shortest in the order of iteration
MinOverSequences(depth, tie, level, candidates, caches, best) ==
    IF candidates = << >> THEN [best |-> best, caches |-> caches]
    ELSE LET r == MinForSequence(depth, tie, level + 1, Head(candidates), caches)
         IN  MinOverSequences(depth, tie, level, Tail(candidates), r.caches,
                IF best = None \/ Len(r.seq) < Len(best[1]) THEN Some(r.seq) ELSE best)

\* Keypad::min_for_transition
MinForTransition(depth, tie, level, t, caches) ==
    IF t \in DOMAIN caches[level + 1]
    THEN [seq |-> caches[level + 1][t], caches |-> caches]
    ELSE IF level = depth
    THEN [seq |-> <<t[2]>>, caches |-> CacheInsert(caches, level, t, <<t[2]>>)]
    ELSE LET r == MinOverSequences(depth, tie, level,
                    IterationOrder(ComputeKeySequences(TypeAt(level), t), tie),
                    caches, None)
         IN  [seq |-> r.best[1], caches |-> CacheInsert(r.caches, level, t, r.best[1])]

RECURSIVE MinLenForTransition(_, _, _, _, _)
RECURSIVE MinOverLengths(_, _, _, _, _, _)
RECURSIVE SumTransitions(_, _, _, _, _, _, _)

\* Keypad::min_len_for_sequence
MinLenForSequence(depth, tie, level, seq, caches) ==
    SumTransitions(depth, tie, level, seq, 1, caches, 0)

SumTransitions(depth, tie, level, seq, i, caches, sum) ==
    IF i > Len(seq) THEN [len |-> sum, caches |-> caches]
    ELSE LET r == MinLenForTransition(depth, tie, level, TransitionAt(seq, i), caches)
         IN  SumTransitions(depth, tie, level, seq, i + 1, r.caches, sum + r.len)

\* map(|seq| controller.min_len_for_sequence(seq)).min()
MinOverLengths(depth, tie, level, candidates, caches, best) ==
    IF candidates = << >> THEN [best |-> best, caches |-> caches]
    ELSE LET r == MinLenForSequence(depth, tie, level + 1, Head(candidates), caches)
         IN  MinOverLengths(depth, tie, level, Tail(candidates), r.caches,
                IF best = None \/ r.len < best[1] THEN Some(r.len) ELSE best)

\* Keypad::min_len_for_transition
MinLenForTransition(depth, tie, level, t, caches) ==
    IF t \in DOMAIN caches[level + 1]
    THEN [len |-> caches[level + 1][t], caches |-> caches]
    ELSE IF level = depth
    THEN [len |-> 1, caches |-> CacheInsert(caches, level, t, 1)]
    ELSE LET r == MinOverLengths(depth, tie, level,
                    IterationOrder(ComputeKeySequences(TypeAt(level), t), tie),
                    caches, None)
         IN  [len |-> r.best[1], caches |-> CacheInsert(r.caches, level, t, r.best[1])]

\* the codes of load_data, here every code of 1..MaxCodeLen21 numeric keys,
\* numbered from 1
KeyList21 == Digits \o <<"A">>

RECURSIVE Pow11(_)
Pow11(n) == IF n = 0 THEN 1 ELSE 11 * Pow11(n - 1)

RECURSIVE CodeOfLen(_, _)
CodeOfLen(len, j) ==
    IF len = 0 THEN << >>
    ELSE Append(CodeOfLen(len - 1, j \div 11), KeyList21[(j % 11) + 1])

RECURSIVE CodeFrom(_, _)
CodeFrom(i, len) ==
    IF i <= Pow11(len) THEN CodeOfLen(len, i - 1)
    ELSE CodeFrom(i - Pow11(len), len + 1)

RECURSIVE CodesUpTo(_)
CodesUpTo(len) == IF len = 0 THEN 0 ELSE Pow11(len) + CodesUpTo(len - 1)

NumCodes21 == CodesUpTo(MaxCodeLen21)

\* the code of the i-th call
CodeAt21(order, i) ==
    CodeFrom(IF order = "forwards" THEN i ELSE NumCodes21 + 1 - i, 1)

\* the keypads themselves: arms[j] is where the arm over the keypad at level
\* j - 1 points, and it is moved by the keys pressed on the keypad at level j.
\* PressOn gives the arms and the keys typed on the numeric keypad after the
\* key is pressed on the keypad at level j, or None when an arm comes to
\* point at no key.
KeyUnder(type, pos) ==
    IF type = "Numeric" THEN NumericTryFrom(pos) ELSE DirectionalTryFrom(pos)

RECURSIVE PressOn(_, _, _, _)
PressOn(j, key, arms, typed) ==
    IF key # "A"
    THEN LET pos == StepKey(key, arms[j])
         IN  IF KeyUnder(TypeAt(j - 1), pos) = None THEN None
             ELSE Some([arms |-> [arms EXCEPT ![j] = pos], typed |-> typed])
    ELSE LET pointed == KeyUnder(TypeAt(j - 1), arms[j])[1]
         IN  IF j = 1 THEN Some([arms |-> arms, typed |-> Append(typed, pointed)])
             ELSE PressOn(j - 1, pointed, arms, typed)

\* every arm points at the A of its keypad
ArmsAtStart(depth) == [j \in 1..depth |-> KeyPos(TypeAt(j - 1), StartKey)]

Max(a, b) == IF a >= b THEN a ELSE b

\* part1 / part2: the chain of keypads is built, of depth21 directional
\* keypads; nothing is cached yet
Init21 ==
    /\ pc21 = "calls"
    /\ depth21 \in 1..MaxDepth21
    /\ tie21 \in {"ascending", "descending"}
    /\ order21 \in {"forwards", "backwards"}
    /\ idx21 = 1
    /\ cached_sequences21 = NewCaches(depth21)
    /\ cached_lengths21 = NewCaches(depth21)
    /\ code21 = << >>
    /\ seq21 = None
    /\ len21 = None
    /\ lengths21 = << >>
    /\ cap21 = 0
    /\ arms21 = << >>
    /\ typed21 = << >>
    /\ presses21 = 0

Idle21 ==
    /\ pc21 = "idle"
    /\ depth21 = 0
    /\ tie21 = ""
    /\ order21 = ""
    /\ idx21 = 0
    /\ cached_sequences21 = << >>
    /\ cached_lengths21 = << >>
    /\ code21 = << >>
    /\ seq21 = None
    /\ len21 = None
    /\ lengths21 = << >>
    /\ cap21 = 0
    /\ arms21 = << >>
    /\ typed21 = << >>
    /\ presses21 = 0

\* depressurised_keypad.min_for_sequence(code), for the next code
CallMinForSequence21 ==
    /\ pc21 = "calls"
    /\ idx21 <= NumCodes21
    /\ seq21 = None
    /\ LET code == CodeAt21(order21, idx21)
           r == MinForSequence(depth21, tie21, 0, code, cached_sequences21)
       IN  /\ code21' = code
           /\ seq21' = Some(r.seq)
           /\ cached_sequences21' = r.caches
    /\ len21' = None
    /\ UNCHANGED <<pc21, depth21, tie21, order21, idx21, cached_lengths21, lengths21,
                   cap21, arms21, typed21, presses21>>
    /\ UNCHANGED others21

\* number_pad.min_len_for_sequence(code), for the same code; lengths21 keeps
\* the lengths returned
CallMinLenForSequence21 ==
    /\ pc21 = "calls"
    /\ idx21 <= NumCodes21
    /\ seq21 # None
    /\ len21 = None
    /\ LET r == MinLenForSequence(depth21, tie21, 0, code21, cached_lengths21)
       IN  /\ len21' = Some(r.len)
           /\ cached_lengths21' = r.caches
           /\ lengths21' = lengths21 @@ (code21 :> r.len)
           /\ cap21' = Max(cap21, r.len)
    /\ UNCHANGED <<pc21, depth21, tie21, order21, idx21, cached_sequences21, code21,
                   seq21, arms21, typed21, presses21>>
    /\ UNCHANGED others21

\* the results are used (complexity); on to the next code
NextCode21 ==
    /\ pc21 = "calls"
    /\ len21 # None
    /\ idx21' = idx21 + 1
    /\ seq21' = None
    /\ len21' = None
    /\ code21' = << >>
    /\ UNCHANGED <<pc21, depth21, tie21, order21, cached_sequences21, cached_lengths21,
                   lengths21, cap21, arms21, typed21, presses21>>
    /\ UNCHANGED others21

\* all codes are done: the Keypad values are dropped, the lengths kept, and
\* the keypads are operated by hand from their start
StartPresses21 ==
    /\ pc21 = "calls"
    /\ idx21 > NumCodes21
    /\ pc21' = "presses"
    /\ tie21' = ""
    /\ order21' = ""
    /\ idx21' = 0
    /\ cached_sequences21' = << >>
    /\ cached_lengths21' = << >>
    /\ arms21' = ArmsAtStart(depth21)
    /\ typed21' = << >>
    /\ presses21' = 0
    /\ UNCHANGED <<depth21, code21, seq21, len21, lengths21, cap21>>
    /\ UNCHANGED others21

\* a key is pressed on the keypad at level depth21, the one pressed directly
Press21 ==
    /\ pc21 = "presses"
    /\ presses21 < cap21
    /\ \E key \in DirectionalKeys :
        LET r == PressOn(depth21, key, arms21, typed21)
        IN  /\ r # None
            /\ Len(r[1].typed) <= MaxCodeLen21
            /\ arms21' = r[1].arms
            /\ typed21' = r[1].typed
    /\ presses21' = presses21 + 1
    /\ UNCHANGED <<pc21, depth21, tie21, order21, idx21, cached_sequences21,
                   cached_lengths21, code21, seq21, len21, lengths21, cap21>>
    /\ UNCHANGED others21

Next21 ==
    \/ CallMinForSequence21
    \/ CallMinLenForSequence21
    \/ NextCode21
    \/ StartPresses21
    \/ Press21

-----------------------------------------------------------------------------
\* bin/day24.rs: Device::compute over a gate map, and Gate equality

\* bounds
MaxGates24 == 3
MaxCalls24 == 2

\* the names of the wires
Wires24 == {"x", "p", "q", "z"}

GateTypes == {"XOR", "AND", "OR"}

\* an apply that takes XOR for OR
ApplyInclusive(op, a, b) ==
    CASE op = "XOR" -> (a \/ b)
      [] op = "AND" -> (a /\ b)
      [] op = "OR" -> (a \/ b)

\* GateType::apply
Apply(op, a, b) ==
    CASE op = "XOR" -> (a # b)
      [] op = "AND" -> (a /\ b)
      [] op = "OR" -> (a \/ b)

Gates24 == [a : Wires24, b : Wires24, op : GateTypes]

\* Result<bool, DeviceError>
Ok(value) == <<"Ok", value>>
Err(error) == <<"Err", error>>

\* Device::_compute: the result and the known_values of the device after the
\* call; each input is computed with its own clone of the indeterminates
RECURSIVE ComputeIn(_, _, _, _)
ComputeIn(gate_map, known_values, name, indeterminates) ==
    IF name \in indeterminates
    THEN [res |-> Err("CircularGateError"), known_values |-> known_values]
    ELSE IF name \in DOMAIN known_values
    THEN [res |-> Ok(known_values[name]), known_values |-> known_values]
    ELSE IF name \notin DOMAIN gate_map
    THEN [res |-> Err("IncompleteDeviceError"), known_values |-> known_values]
    ELSE LET gate == gate_map[name]
             ra == ComputeIn(gate_map, known_values, gate.a,
                             indeterminates \cup {name})
         IN  IF ra.res[1] = "Err" THEN ra
             ELSE LET rb == ComputeIn(gate_map, ra.known_values, gate.b,
                                      indeterminates \cup {name})
                  IN  IF rb.res[1] = "Err" THEN rb
                      ELSE LET value == Apply(gate.op, ra.res[2], rb.res[2])
                           IN  [res |-> Ok(value),
                                known_values |-> rb.known_values @@ (name :> value)]

\* Device::compute
Compute(gate_map, known_values, name) == ComputeIn(gate_map, known_values, name, {})

\* a device as parsed: the wire x is an input, known or not given, and up to
\* MaxGates24 of the other wires are the outputs of gates
Init24 ==
    /\ pc24 = "ready"
    /\ \E outs \in SUBSET (Wires24 \ {"x"}) :
        /\ Cardinality(outs) <= MaxGates24
        /\ gate_map24 \in [outs -> Gates24]
    /\ \E ins \in SUBSET {"x"} : known_values24 \in [ins -> BOOLEAN]
    /\ inputs24 = known_values24
    /\ calls24 = 0
    /\ name24 = ""
    /\ ret24 = None

Idle24 ==
    /\ pc24 = "idle"
    /\ gate_map24 = << >>
    /\ known_values24 = << >>
    /\ inputs24 = << >>
    /\ calls24 = 0
    /\ name24 = ""
    /\ ret24 = None

\* device.compute(name); inputs24 keeps the known values of the parsed device
CallCompute24 ==
    /\ pc24 = "ready"
    /\ calls24 < MaxCalls24
    /\ \E name \in Wires24 :
        LET r == Compute(gate_map24, known_values24, name)
        IN  /\ name24' = name
            /\ ret24' = Some(r.res)
            /\ known_values24' = r.known_values
    /\ calls24' = calls24 + 1
    /\ UNCHANGED <<pc24, gate_map24, inputs24>>
    /\ UNCHANGED others24

Next24 ==
    \/ CallCompute24

-----------------------------------------------------------------------------
\* bin/day24.rs: two Gate values compared with ==

\* the wire names of the gates compared
WiresGe == {"a", "b", "c"}

GatesGe == [a : WiresGe, b : WiresGe, op : GateTypes]

\* #[derive(PartialEq)] for Gate: field by field
GateEq(g, h) == g.a = h.a /\ g.b = h.b /\ g.op = h.op

\* Gate::mirror
Mirror(g) == [a |-> g.b, b |-> g.a, op |-> g.op]

InitGe ==
    /\ pcGe = "ready"
    /\ leftGe \in GatesGe
    /\ rightGe \in GatesGe
    /\ resGe = None

IdleGe ==
    /\ pcGe = "idle"
    /\ leftGe = << >>
    /\ rightGe = << >>
    /\ resGe = None

\* right = left.clone().mirror()
MirrorGe ==
    /\ pcGe = "ready"
    /\ rightGe' = Mirror(leftGe)
    /\ pcGe' = "mirrored"
    /\ UNCHANGED <<leftGe, resGe>>
    /\ UNCHANGED othersGe

\* left == right
CompareGe ==
    /\ pcGe \in {"ready", "mirrored"}
    /\ resGe' = Some(GateEq(leftGe, rightGe))
    /\ pcGe' = "done"
    /\ UNCHANGED <<leftGe, rightGe>>
    /\ UNCHANGED othersGe

NextGe ==
    \/ MirrorGe
    \/ CompareGe

-----------------------------------------------------------------------------
\* bin/day15.rs: Warehouse<Tile>::try_step over a room

\* bounds
MaxCells15 == 4
MaxSteps15 == 2

Tiles15 == {"Empty", "Box", "Wall"}

\* the rooms of load_input: a rectangle of tiles, the robot on one of them,
\* which is read as Empty ('@' is neither '#' nor 'O')
Bounds15 ==
    {b \in (1..MaxCells15) \X (1..MaxCells15) : b[1] * b[2] <= MaxCells15}

\* *self.room.value_mut(&pos) = value, left undone
KeepValue(room, pos, value) == room

\* *self.room.value_mut(&pos) = value
SetValue(room, pos, value) == [room EXCEPT ![pos] = value]

\* Warehouse<Tile>::try_move: the value returned and the room after the call
RECURSIVE TryMove(_, _, _, _)
TryMove(room, bounds, start_pos, direction) ==
    LET start_value == room[start_pos]
        next == TryStep(start_pos, direction, bounds)
    IN  IF next = None THEN [ret |-> FALSE, room |-> room]
        ELSE LET next_pos == next[1]
                 next_value == room[next_pos]
             IN  IF next_value = "Empty"
                 THEN [ret |-> TRUE, room |-> SetValue(room, next_pos, start_value)]
                 ELSE IF next_value = "Box"
                 THEN LET r == TryMove(room, bounds, next_pos, direction)
                      IN  IF r.ret
                          THEN [ret |-> TRUE,
                                room |-> SetValue(r.room, next_pos, start_value)]
                          ELSE [ret |-> FALSE, room |-> r.room]
                 ELSE [ret |-> FALSE, room |-> room]

\* Warehouse<Tile>::try_step: the value returned, the room and the robot after
WarehouseTryStep(room, bounds, robot, direction) ==
    LET r == TryMove(room, bounds, robot, direction)
    IN  IF r.ret
        THEN [ret |-> TRUE, room |-> r.room,
              robot |-> TryStep(robot, direction, bounds)[1]]
        ELSE [ret |-> FALSE, room |-> r.room, robot |-> robot]

Init15 ==
    /\ pc15 = "ready"
    /\ bounds15 \in Bounds15
    /\ robot15 \in Positions16(bounds15)
    /\ room15 \in [Positions16(bounds15) -> Tiles15]
    /\ room15[robot15] = "Empty"
    /\ before15 = [room |-> room15, robot |-> robot15]
    /\ dir15 = "UP"
    /\ ret15 = None
    /\ steps15 = 0

Idle15 ==
    /\ pc15 = "idle"
    /\ bounds15 = <<0, 0>>
    /\ robot15 = <<0, 0>>
    /\ room15 = << >>
    /\ before15 = << >>
    /\ dir15 = "UP"
    /\ ret15 = None
    /\ steps15 = 0

\* warehouse.try_step(direction); before15 keeps the room and the robot of
\* before the call
CallTryStep15 ==
    /\ pc15 = "ready"
    /\ steps15 < MaxSteps15
    /\ \E direction \in Directions06 :
        LET r == WarehouseTryStep(room15, bounds15, robot15, direction)
        IN  /\ dir15' = direction
            /\ ret15' = Some(r.ret)
            /\ room15' = r.room
            /\ robot15' = r.robot
    /\ before15' = [room |-> room15, robot |-> robot15]
    /\ steps15' = steps15 + 1
    /\ UNCHANGED <<pc15, bounds15>>
    /\ UNCHANGED others15

Next15 ==
    \/ CallTryStep15

-----------------------------------------------------------------------------
\* bin/day17.rs: reverse_engineer_a over a program

\* bounds
MaxLen17 == 4

\* the numbers of a program: 3 bits each
Numbers17 == 0..7

\* the programs parse_program_string yields, up to MaxLen17 numbers
Programs17 == UNION {[1..n -> Numbers17] : n \in 1..MaxLen17}

\* overflow checks on (debug) or off (release)
Builds17 == {"debug", "release"}

RECURSIVE Pow2(_)
Pow2(n) == IF n = 0 THEN 1 ELSE 2 * Pow2(n - 1)

\* a ^ b on u64
RECURSIVE Xor(_, _)
Xor(a, b) ==
    IF a = 0 THEN b
    ELSE IF b = 0 THEN a
    ELSE (((a % 2) + (b % 2)) % 2) + 2 * Xor(a \div 2, b \div 2)

\* the registers stay below 2^RegisterBits17 for the programs above
RegisterBits17 == 3 * MaxLen17 + 3

\* a >> n on u64, n < 64
Shr(a, n) == IF n >= RegisterBits17 THEN 0 ELSE a \div Pow2(n)

\* a >> n on u64: the shift amount is checked (debug) or taken modulo 64
ShiftRight(build, a, n) ==
    IF n < 64 THEN Some(Shr(a, n))
    ELSE IF build = "debug" THEN None
    ELSE Some(Shr(a, n % 64))

\* ProgramState::new(program_string).set_a(a)
ProgramStateNew(program, a) ==
    [a |-> a, b |-> 0, c |-> 0, program |-> program, instruction_ptr |-> 0]

\* ProgramState::combo, None for the reserved value
Combo(state, operand) ==
    IF operand < 4 THEN Some(operand)
    ELSE IF operand = 4 THEN Some(state.a)
    ELSE IF operand = 5 THEN Some(state.b)
    ELSE IF operand = 6 THEN Some(state.c)
    ELSE None

\* the instruction pointer is a 0-based index into the program
At17(program, i) == program[i + 1]

\* ProgramState::step: the outcome (None, Halt, Output or Panic), the number
\* put out and the state after the step
Step17(build, state) ==
    IF Len(state.program) < 2
    THEN [outcome |-> "Panic", out |-> 0, state |-> state]
    ELSE IF state.instruction_ptr > Len(state.program) - 2
    THEN [outcome |-> "Halt", out |-> 0, state |-> state]
    ELSE LET instruction == At17(state.program, state.instruction_ptr)
             operand == At17(state.program, state.instruction_ptr + 1)
             s == [state EXCEPT !.instruction_ptr = @ + 2]
             combo == Combo(s, operand)
             panic == [outcome |-> "Panic", out |-> 0, state |-> s]
             none(t) == [outcome |-> "None", out |-> 0, state |-> t]
             shifted == IF combo = None THEN None ELSE ShiftRight(build, s.a, combo[1])
         IN  CASE instruction = 0 ->
                    IF shifted = None THEN panic ELSE none([s EXCEPT !.a = shifted[1]])
               [] instruction = 1 -> none([s EXCEPT !.b = Xor(@, operand)])
               [] instruction = 2 ->
                    IF combo = None THEN panic ELSE none([s EXCEPT !.b = combo[1] % 8])
               [] instruction = 3 ->
                    IF s.a # 0 THEN none([s EXCEPT !.instruction_ptr = operand])
                    ELSE none(s)
               [] instruction = 4 -> none([s EXCEPT !.b = Xor(@, s.c)])
               [] instruction = 5 ->
                    IF combo = None THEN panic
                    ELSE [outcome |-> "Output", out |-> combo[1] % 8, state |-> s]
               [] instruction = 6 ->
                    IF shifted = None THEN panic ELSE none([s EXCEPT !.b = shifted[1]])
               [] instruction = 7 ->
                    IF shifted = None THEN panic ELSE none([s EXCEPT !.c = shifted[1]])

\* the loop of steps up to the first outcome other than None; a state met
\* twice on the way is a loop that never ends ("Diverge")
RECURSIVE StepToOutcome(_, _, _)
StepToOutcome(build, state, seen) ==
    IF state \in seen THEN [outcome |-> "Diverge", out |-> 0, state |-> state]
    ELSE LET r == Step17(build, state)
         IN  IF r.outcome = "None"
             THEN StepToOutcome(build, r.state, seen \cup {state})
             ELSE r

\* ProgramState::run, cut after more than cap numbers: how the run ends
\* (Halt, Panic, Diverge or Cut) and the numbers put out
RECURSIVE Run17(_, _, _, _)
Run17(build, state, outputs, cap) ==
    IF Len(outputs) > cap THEN [outcome |-> "Cut", outputs |-> outputs]
    ELSE LET r == StepToOutcome(build, state, {})
         IN  IF r.outcome = "Output"
             THEN Run17(build, r.state, Append(outputs, r.out), cap)
             ELSE [outcome |-> r.outcome, outputs |-> outputs]

Returned(value) == <<"Returned", value>>

\* reverse_engineer_a: Returned(Some(a)), Returned(None), or the call does not
\* return: <<"Panic">>, <<"Diverge">>
RECURSIVE ReverseEngineerA(_, _, _, _)
RECURSIVE TryFrom17(_, _, _, _, _)
TryFrom17(build, program, intended_output, fixed_a, a) ==
    IF a >= 8 THEN Returned(None)
    ELSE LET new_a == fixed_a * 8 + a
             last_out == intended_output[Len(intended_output)]
             rest == TryFrom17(build, program, intended_output, fixed_a, a + 1)
         IN  IF new_a = 0 THEN rest
             ELSE LET r == StepToOutcome(build, ProgramStateNew(program, new_a), {})
                  IN  CASE r.outcome = "Halt" -> rest
                        [] r.outcome = "Panic" -> <<"Panic">>
                        [] r.outcome = "Diverge" -> <<"Diverge">>
                        [] r.outcome = "Output" ->
                            IF r.out = last_out
                            THEN LET deeper ==
                                        ReverseEngineerA(build, program,
                                            SubSeq(intended_output, 1,
                                                   Len(intended_output) - 1),
                                            new_a)
                                 IN  IF deeper = Returned(None) THEN rest ELSE deeper
                            ELSE rest

ReverseEngineerA(build, program, intended_output, fixed_a) ==
    IF intended_output = << >> THEN Returned(Some(fixed_a))
    ELSE TryFrom17(build, program, intended_output, fixed_a, 0)

Init17 ==
    /\ pc17 = "ready"
    /\ build17 \in Builds17
    /\ program17 \in Programs17
    /\ ret17 = None

Idle17 ==
    /\ pc17 = "idle"
    /\ build17 = "debug"
    /\ program17 = << >>
    /\ ret17 = None

\* part2: reverse_engineer_a(program_string, &intended_output, 0)
CallReverseEngineerA17 ==
    /\ pc17 = "ready"
    /\ ret17' = Some(ReverseEngineerA(build17, program17, program17, 0))
    /\ pc17' = "done"
    /\ UNCHANGED <<build17, program17>>
    /\ UNCHANGED others17

Next17 ==
    \/ CallReverseEngineerA17

-----------------------------------------------------------------------------
\* bin/day09.rs: part2 (defrag_compress, checksum) over a disk map

\* if *free_size < *file_size { continue; }: the span is taken otherwise
Fits(free_size, file_size) == ~(free_size < file_size)

\* defrag_compress, for left_idx in 0..right_idx: the move instruction for the
\* file at right_idx (indices count from 0), None without a span that fits
FindMove(harddisk, right_idx) ==
    LET file == harddisk[right_idx + 1]
        fitting == {left_idx \in 0..(right_idx - 1) :
                        /\ harddisk[left_idx + 1].kind = "Free"
                        /\ Fits(harddisk[left_idx + 1].size, file.size)}
    IN  IF fitting = {} THEN None
        ELSE LET left_idx == CHOOSE l \in fitting : \A k \in fitting : l <= k
             IN  Some([move_from_idx |-> right_idx,
                       move_to_idx |-> left_idx,
                       file_id |-> file.id,
                       file_size |-> file.size,
                       remaining_free_size |-> harddisk[left_idx + 1].size - file.size])

\* Vec::insert
InsertAt(seq, idx, elem) ==
    SubSeq(seq, 1, idx) \o <<elem>> \o SubSeq(seq, idx + 1, Len(seq))

\* defrag_compress, if let Some(MoveInstruction): the harddisk and right_idx
\* after a move, before the last right_idx -= 1
ApplyMove(harddisk, right_idx, mv) ==
    LET moved == [harddisk EXCEPT ![mv.move_from_idx + 1] = Free09(mv.file_size),
                                  ![mv.move_to_idx + 1] = File09(mv.file_id, mv.file_size)]
    IN  IF mv.remaining_free_size > 0
        THEN [harddisk |-> InsertAt(moved, mv.move_to_idx + 1, Free09(mv.remaining_free_size)),
              right_idx |-> right_idx + 1]
        ELSE [harddisk |-> moved, right_idx |-> right_idx]

InitDf ==
    /\ pcDf = "call"
    /\ mapDf \in SeqsOf({Digits[d + 1] : d \in 0..MaxDigit09}, 1, MaxMapLen09)
    /\ harddiskDf = <<>>
    /\ right_idxDf = 0
    /\ movesDf = <<>>
    /\ retDf = None

IdleDf ==
    /\ pcDf = "idle"
    /\ mapDf = <<>>
    /\ harddiskDf = <<>>
    /\ right_idxDf = 0
    /\ movesDf = <<>>
    /\ retDf = None

\* part2: blocks_from_string, and the head of defrag_compress
StartDf ==
    /\ pcDf = "call"
    /\ pcDf' = "loop"
    /\ harddiskDf' = BlocksFromString(mapDf)
    /\ right_idxDf' = Len(BlocksFromString(mapDf)) - 1
    /\ UNCHANGED <<mapDf, movesDf, retDf>>
    /\ UNCHANGED othersDf

\* defrag_compress, loop arm Free: the right index steps over a free span
SkipFreeDf ==
    /\ pcDf = "loop"
    /\ right_idxDf > 0
    /\ harddiskDf[right_idxDf + 1].kind = "Free"
    /\ right_idxDf' = right_idxDf - 1
    /\ UNCHANGED <<pcDf, mapDf, harddiskDf, movesDf, retDf>>
    /\ UNCHANGED othersDf

\* defrag_compress, loop arm File with a move instruction; movesDf keeps the
\* ids of the files moved, in the order of the moves
MoveFileDf ==
    /\ pcDf = "loop"
    /\ right_idxDf > 0
    /\ harddiskDf[right_idxDf + 1].kind = "File"
    /\ FindMove(harddiskDf, right_idxDf) # None
    /\ LET mv == FindMove(harddiskDf, right_idxDf)[1]
           r == ApplyMove(harddiskDf, right_idxDf, mv)
       IN  /\ harddiskDf' = r.harddisk
           /\ right_idxDf' = r.right_idx - 1
           /\ movesDf' = Append(movesDf, mv.file_id)
    /\ UNCHANGED <<pcDf, mapDf, retDf>>
    /\ UNCHANGED othersDf

\* defrag_compress, loop arm File without a move instruction
KeepFileDf ==
    /\ pcDf = "loop"
    /\ right_idxDf > 0
    /\ harddiskDf[right_idxDf + 1].kind = "File"
    /\ FindMove(harddiskDf, right_idxDf) = None
    /\ right_idxDf' = right_idxDf - 1
    /\ UNCHANGED <<pcDf, mapDf, harddiskDf, movesDf, retDf>>
    /\ UNCHANGED othersDf

\* defrag_compress returns; part2 returns the checksum
FinishDf ==
    /\ pcDf = "loop"
    /\ ~(right_idxDf > 0)
    /\ retDf' = Some(Checksum(harddiskDf))
    /\ pcDf' = "returned"
    /\ UNCHANGED <<mapDf, harddiskDf, right_idxDf, movesDf>>
    /\ UNCHANGED othersDf

NextDf == StartDf \/ SkipFreeDf \/ MoveFileDf \/ KeepFileDf \/ FinishDf

-----------------------------------------------------------------------------
\* bin/day02.rs: is_safe_report and is_safe_report_with_damper over a report

\* bounds
MaxLevel02 == 4
MaxLen02 == 5

\* the reports of rows_from_file: rows of numbers, the empty row included
Reports02 == SeqsOf(0..MaxLevel02, 0, MaxLen02)

\* ReportType::is_safe
IsSafe(type) == type # "Unsafe"

\* ReportType::combined_with, without the arms for opposite directions
CombinedWithAnyDirection(type, other_type) ==
    IF type = "Unsafe" \/ other_type = "Unsafe" THEN "Unsafe"
    ELSE IF type = "Trivial" THEN other_type
    ELSE type

\* ReportType::combined_with
CombinedWith(type, other_type) ==
    IF \/ type = "Unsafe"
       \/ other_type = "Unsafe"
       \/ (type = "Decreasing" /\ other_type = "Increasing")
       \/ (type = "Increasing" /\ other_type = "Decreasing")
    THEN "Unsafe"
    ELSE IF type = "Trivial" THEN other_type
    ELSE type

IsSafeIncrease(difference) == difference \in {1, 2, 3}

IsSafeDecrease(difference) == IsSafeIncrease(-difference)

\* report_type; the iterator of the differences is shared by the two all()
\* calls, and the second is reached with the iterator untouched (the first
\* is not called when report[1] > report[0] is false) or not at all
ReportTypeOf(report) ==
    IF Len(report) < 2 THEN "Trivial"
    ELSE LET differences == [i \in 1..(Len(report) - 1) |-> report[i + 1] - report[i]]
         IN  IF /\ report[2] > report[1]
                /\ \A i \in DOMAIN differences : IsSafeIncrease(differences[i])
             THEN "Increasing"
             ELSE IF /\ report[2] < report[1]
                     /\ \A i \in DOMAIN differences : IsSafeDecrease(differences[i])
             THEN "Decreasing"
             ELSE "Unsafe"

\* is_safe_report
IsSafeReport(report) == IsSafe(ReportTypeOf(report))

\* is_safe_report_with_damper, the loop from idx on (idx counts from 0)
RECURSIVE TryRemoving(_, _)
TryRemoving(report, idx) ==
    IF idx >= Len(report) - 1 THEN FALSE
    ELSE LET left == SubSeq(report, 1, idx)
             left_type == ReportTypeOf(left)
         IN  IF ~IsSafe(left_type) THEN FALSE
             ELSE LET mid == <<report[idx], report[idx + 2]>>
                      right_needs_type == CombinedWith(ReportTypeOf(mid), left_type)
                  IN  IF ~IsSafe(right_needs_type) THEN TryRemoving(report, idx + 1)
                      ELSE LET right == SubSeq(report, idx + 2, Len(report))
                               right_type == ReportTypeOf(right)
                           IN  IF IsSafe(CombinedWith(right_type, right_needs_type))
                               THEN TRUE
                               ELSE TryRemoving(report, idx + 1)

\* is_safe_report_with_damper
IsSafeReportWithDamper(report) ==
    IF Len(report) < 3 THEN TRUE
    ELSE IF \/ IsSafeReport(SubSeq(report, 2, Len(report)))
            \/ IsSafeReport(SubSeq(report, 1, Len(report) - 1))
    THEN TRUE
    ELSE TryRemoving(report, 1)

Init02 ==
    /\ pc02 = "ready"
    /\ report02 \in Reports02
    /\ fn02 = ""
    /\ ret02 = None

Idle02 ==
    /\ pc02 = "idle"
    /\ report02 = << >>
    /\ fn02 = ""
    /\ ret02 = None

\* part1: is_safe_report(report)
CallIsSafeReport02 ==
    /\ pc02 = "ready"
    /\ fn02' = "is_safe_report"
    /\ ret02' = Some(IsSafeReport(report02))
    /\ pc02' = "done"
    /\ UNCHANGED report02
    /\ UNCHANGED others02

\* part2: is_safe_report_with_damper(report)
CallIsSafeReportWithDamper02 ==
    /\ pc02 = "ready"
    /\ fn02' = "is_safe_report_with_damper"
    /\ ret02' = Some(IsSafeReportWithDamper(report02))
    /\ pc02' = "done"
    /\ UNCHANGED report02
    /\ UNCHANGED others02

Next02 ==
    \/ CallIsSafeReport02
    \/ CallIsSafeReportWithDamper02

-----------------------------------------------------------------------------
\* bin/day23.rs: two runs of largest_clique over one graph

\* bounds
MaxComputers23 == 4

\* the computers of the input
AllComputers23 == <<"aa", "bb", "cc", "dd", "ee", "ff">>
Computers23 == {AllComputers23[i] : i \in 1..MaxComputers23}

\* the lines of the input: connections between two different computers
Edges23 == {e \in SUBSET Computers23 : Cardinality(e) = 2}

\* ComputerGraph::from_file: an entry for every computer of a line, with the
\* computers it is connected to
GraphFrom(edges) ==
    [c \in UNION edges |-> {d \in UNION edges : {c, d} \in edges}]

\* the orders a HashSet of computers may be iterated in: the hasher is seeded
\* anew in every run
Orders23 == {o \in [1..MaxComputers23 -> Computers23] :
                \A i, j \in 1..MaxComputers23 : i # j => o[i] # o[j]}

\* for c in candidates: the computers of the set, in the order of the run
IterateIn(order, set) == SelectSeq(order, LAMBDA c : c \in set)

\* if clique.len() > largest_found { best_clique = Some(clique) }
IsLarger(found, largest_found) == Cardinality(found) > largest_found

\* ComputerGraph::pruned_bron_kerbosch; ForCandidates is its loop
RECURSIVE PrunedBronKerbosch(_, _, _, _, _)
RECURSIVE ForCandidates(_, _, _, _, _, _)
ForCandidates(data, order, clique, todo, best_clique, future_candidates) ==
    IF todo = << >> THEN best_clique
    ELSE LET c == Head(todo)
             largest_found == IF best_clique = None THEN 0
                              ELSE Cardinality(best_clique[1])
             next_clique == clique \cup {c}
             next_candidates == future_candidates \cap data[c]
             found == PrunedBronKerbosch(data, order, next_clique, next_candidates,
                                         largest_found)
             best == IF found # None /\ IsLarger(found[1], largest_found)
                     THEN found ELSE best_clique
         IN  ForCandidates(data, order, clique, Tail(todo), best,
                           future_candidates \ {c})

PrunedBronKerbosch(data, order, clique, candidates, largest_found) ==
    IF Cardinality(clique) + Cardinality(candidates) <= largest_found THEN None
    ELSE IF candidates = {} THEN Some(clique)
    ELSE ForCandidates(data, order, clique, IterateIn(order, candidates), None,
                       candidates)

\* ComputerGraph::largest_clique, before the unwrap
LargestClique(data, order) ==
    PrunedBronKerbosch(data, order, {}, DOMAIN data, 0)

Init23 ==
    /\ pc23 = "ready"
    /\ \E edges \in SUBSET Edges23 :
        /\ edges # {}
        /\ data23 = GraphFrom(edges)
    /\ runs23 = 0
    /\ earlier23 = None
    /\ ret23 = None

Idle23 ==
    /\ pc23 = "idle"
    /\ data23 = << >>
    /\ runs23 = 0
    /\ earlier23 = None
    /\ ret23 = None

\* part2, run once more on the same input: graph.largest_clique(), the sets
\* iterated in the order of this run; earlier23 keeps the clique of the run
\* before
CallLargestClique23 ==
    /\ pc23 = "ready"
    /\ runs23 < 2
    /\ \E order \in Orders23 : ret23' = LargestClique(data23, order)
    /\ earlier23' = ret23
    /\ runs23' = runs23 + 1
    /\ UNCHANGED <<pc23, data23>>
    /\ UNCHANGED others23

Next23 ==
    \/ CallLargestClique23

-----------------------------------------------------------------------------
\* bin/day06.rs: calls of creates_loop on one maze

\* bounds
MaxCallsCl == 2

\* maze.obstacles.remove(&obstacle), left undone
KeepObstacle(obstacles, obstacle) == obstacles

\* maze.obstacles.remove(&obstacle)
RemoveObstacle(obstacles, obstacle) == obstacles \ {obstacle}

\* read_maze, as for part1; maze0Cl keeps the guard and the obstacles of the
\* maze as read
InitCl ==
    /\ pcCl = "ready"
    /\ boundsCl \in (1..MaxW06) \X (1..MaxH06)
    /\ obstaclesCl \in SUBSET Cells06(boundsCl)
    /\ guardCl \in {[pos |-> p, dir |-> d] : p \in Cells06(boundsCl) \ obstaclesCl,
                                             d \in Directions06}
                   \cup {[pos |-> <<0, 0>>, dir |-> "UP"]}
    /\ maze0Cl = [guard |-> guardCl, obstacles |-> obstaclesCl]
    /\ obstacleCl = <<0, 0>>
    /\ guard_startCl = guardCl
    /\ visited_guard_statesCl = {}
    /\ stepsCl = 0
    /\ callsCl = 0
    /\ retCl = None

IdleCl ==
    /\ pcCl = "idle"
    /\ boundsCl = <<0, 0>>
    /\ obstaclesCl = {}
    /\ guardCl = [pos |-> <<0, 0>>, dir |-> "UP"]
    /\ maze0Cl = << >>
    /\ obstacleCl = <<0, 0>>
    /\ guard_startCl = [pos |-> <<0, 0>>, dir |-> "UP"]
    /\ visited_guard_statesCl = {}
    /\ stepsCl = 0
    /\ callsCl = 0
    /\ retCl = None

\* part2: creates_loop(&mut maze, obstacle) for a candidate that is not an
\* obstacle; creates_loop up to its loop
CallCreatesLoopCl ==
    /\ pcCl \in {"ready", "returned"}
    /\ callsCl < MaxCallsCl
    /\ \E obstacle \in Cells06(boundsCl) \ obstaclesCl :
        /\ obstacleCl' = obstacle
        /\ obstaclesCl' = obstaclesCl \cup {obstacle}
    /\ guard_startCl' = guardCl
    /\ visited_guard_statesCl' = {guardCl}
    /\ stepsCl' = 0
    /\ callsCl' = callsCl + 1
    /\ retCl' = None
    /\ pcCl' = "loop"
    /\ UNCHANGED <<boundsCl, guardCl, maze0Cl>>
    /\ UNCHANGED othersCl

\* creates_loop: a turn of the loop, the guard state is new
StepCl ==
    /\ pcCl = "loop"
    /\ LET r == StepGuard06(guardCl, obstaclesCl, boundsCl)
       IN  /\ r.ret # None
           /\ r.guard \notin visited_guard_statesCl
           /\ guardCl' = r.guard
           /\ visited_guard_statesCl' = visited_guard_statesCl \cup {r.guard}
    /\ stepsCl' = stepsCl + 1
    /\ UNCHANGED <<pcCl, boundsCl, obstaclesCl, maze0Cl, obstacleCl, guard_startCl,
                   callsCl, retCl>>
    /\ UNCHANGED othersCl

\* creates_loop: the guard state was seen before: break, and the maze is put
\* back
LoopFoundCl ==
    /\ pcCl = "loop"
    /\ LET r == StepGuard06(guardCl, obstaclesCl, boundsCl)
       IN  /\ r.ret # None
           /\ r.guard \in visited_guard_statesCl
    /\ obstaclesCl' = RemoveObstacle(obstaclesCl, obstacleCl)
    /\ guardCl' = guard_startCl
    /\ retCl' = Some(TRUE)
    /\ pcCl' = "returned"
    /\ stepsCl' = stepsCl + 1
    /\ UNCHANGED <<boundsCl, maze0Cl, obstacleCl, guard_startCl,
                   visited_guard_statesCl, callsCl>>
    /\ UNCHANGED othersCl

\* creates_loop: step_guard returns None, the guard leaves the grid, and the
\* maze is put back
LeaveCl ==
    /\ pcCl = "loop"
    /\ StepGuard06(guardCl, obstaclesCl, boundsCl).ret = None
    /\ obstaclesCl' = RemoveObstacle(obstaclesCl, obstacleCl)
    /\ guardCl' = guard_startCl
    /\ retCl' = Some(FALSE)
    /\ pcCl' = "returned"
    /\ stepsCl' = stepsCl + 1
    /\ UNCHANGED <<boundsCl, maze0Cl, obstacleCl, guard_startCl,
                   visited_guard_statesCl, callsCl>>
    /\ UNCHANGED othersCl

NextCl == CallCreatesLoopCl \/ StepCl \/ LoopFoundCl \/ LeaveCl

-----------------------------------------------------------------------------
\* bin/day11.rs: blink_list and blink_map over the stones of one input

\* bounds
MaxStone11 == 12
MaxStones11 == 2
MaxBlinks11 == 4

\* u64::ilog10, for value > 0
RECURSIVE Ilog10(_)
Ilog10(value) == IF value < 10 THEN 0 ELSE 1 + Ilog10(value \div 10)

\* u64::pow, base 10
RECURSIVE Pow10(_)
Pow10(n) == IF n = 0 THEN 1 ELSE 10 * Pow10(n - 1)

\* even_number_of_digits
EvenNumberOfDigits(value) == Ilog10(value) % 2 = 1

\* split_digits_vec
SplitDigitsVec(value) ==
    LET half_digits == (Ilog10(value) + 1) \div 2
        factor == Pow10(half_digits)
    IN  <<value \div factor, value % factor>>

\* split_digits, with half_digits one too small for some values
SplitDigitsLow(value) ==
    LET half_digits == Ilog10(value) \div 2
        factor == Pow10(half_digits)
    IN  <<value \div factor, value % factor>>

\* split_digits
SplitDigits(value) ==
    LET half_digits == (Ilog10(value) + 1) \div 2
        factor == Pow10(half_digits)
    IN  <<value \div factor, value % factor>>

\* *next_map.entry(key).or_insert(0) += count
AddCount(map, key, count) ==
    IF key \in DOMAIN map THEN [map EXCEPT ![key] = @ + count]
    ELSE map @@ (key :> count)

\* blink_map: the loop over the entries still to do (the order of a HashMap)
RECURSIVE BlinkMapOver(_, _, _)
BlinkMapOver(stone_map, todo, next_map) ==
    IF todo = {} THEN next_map
    ELSE LET stone == CHOOSE s \in todo : TRUE
             count == stone_map[stone]
             added ==
                IF stone = 0 THEN AddCount(next_map, 1, count)
                ELSE IF EvenNumberOfDigits(stone)
                THEN LET halves == SplitDigits(stone)
                     IN  AddCount(AddCount(next_map, halves[1], count), halves[2], count)
                ELSE AddCount(next_map, stone * 2024, count)
         IN  BlinkMapOver(stone_map, todo \ {stone}, added)

\* blink_map
BlinkMap(stone_map) == BlinkMapOver(stone_map, DOMAIN stone_map, << >>)

\* blink_list
RECURSIVE BlinkList(_)
BlinkList(stone_list) ==
    IF stone_list = << >> THEN << >>
    ELSE LET stone == Head(stone_list)
             stones == IF stone = 0 THEN <<1>>
                       ELSE IF EvenNumberOfDigits(stone) THEN SplitDigitsVec(stone)
                       ELSE <<stone * 2024>>
         IN  stones \o BlinkList(Tail(stone_list))

\* Itertools::counts
CountsOf(stone_list) ==
    [stone \in {stone_list[i] : i \in DOMAIN stone_list} |->
        Cardinality({i \in DOMAIN stone_list : stone_list[i] = stone})]

\* stone_list_from_file and stone_map_from_file, on the same file
Init11 ==
    /\ pc11 = "ready"
    /\ stone_list11 \in SeqsOf(0..MaxStone11, 0, MaxStones11)
    /\ stone_map11 = CountsOf(stone_list11)
    /\ list_blinks11 = 0
    /\ map_blinks11 = 0

Idle11 ==
    /\ pc11 = "idle"
    /\ stone_list11 = << >>
    /\ stone_map11 = << >>
    /\ list_blinks11 = 0
    /\ map_blinks11 = 0

\* part1: stone_list = blink_list(stone_list)
CallBlinkList11 ==
    /\ pc11 = "ready"
    /\ list_blinks11 < MaxBlinks11
    /\ stone_list11' = BlinkList(stone_list11)
    /\ list_blinks11' = list_blinks11 + 1
    /\ UNCHANGED <<pc11, stone_map11, map_blinks11>>
    /\ UNCHANGED others11

\* part2: stone_map = blink_map(stone_map)
CallBlinkMap11 ==
    /\ pc11 = "ready"
    /\ map_blinks11 < MaxBlinks11
    /\ stone_map11' = BlinkMap(stone_map11)
    /\ map_blinks11' = map_blinks11 + 1
    /\ UNCHANGED <<pc11, stone_list11, list_blinks11>>
    /\ UNCHANGED others11

Next11 ==
    \/ CallBlinkList11
    \/ CallBlinkMap11

-----------------------------------------------------------------------------
\* lib.rs (maps::Map2D) and utils/map2d/grid.rs (Grid): value over the
\* positions of position_iter, for a grid parsed from the same lines

\* bounds
MaxWidthMp == 3
MaxHeightMp == 2

\* the characters of the lines
CharsMp == {"a", "b"}

\* the lines of a file: MaxHeightMp lines or fewer, all of one length
LinesMp ==
    UNION {[1..h -> [1..w -> CharsMp]] : w \in 1..MaxWidthMp, h \in 1..MaxHeightMp}

\* From<Lines<B>> for Map2D<T> and From<Vec<String>> for Grid<T>: the data (the
\* characters line by line) and Bounds(data[0].len(), data.len())
FromLines(lines) == [data |-> lines, bounds |-> <<Len(lines[1]), Len(lines)>>]

\* Map2D::position_iter and Grid::position_iter
PositionIter(map) == (0..(map.bounds[1] - 1)) \X (0..(map.bounds[2] - 1))

\* vec[i], i counted from 0: Ok of the element, or the panic of an index out
\* of range
IndexVec(vec, i) == IF i + 1 \in DOMAIN vec THEN Ok(vec[i + 1]) ELSE Err("Panic")

\* Map2D::value: &self.data[pos.0][pos.1]
Map2DValue(map, pos) ==
    LET row == IndexVec(map.data, pos[1])
    IN  IF row[1] = "Err" THEN row ELSE IndexVec(row[2], pos[2])

\* Grid::value: &self.data[pos.1][pos.0]
GridValue(map, pos) ==
    LET row == IndexVec(map.data, pos[2])
    IN  IF row[1] = "Err" THEN row ELSE IndexVec(row[2], pos[1])

InitMp ==
    /\ pcMp = "ready"
    /\ linesMp \in LinesMp
    /\ fnMp = ""
    /\ posMp = <<0, 0>>
    /\ retMp = None

IdleMp ==
    /\ pcMp = "idle"
    /\ linesMp = << >>
    /\ fnMp = ""
    /\ posMp = <<0, 0>>
    /\ retMp = None

\* map.value(&pos) on the Map2D of the lines, pos out of map.position_iter()
CallMap2DValueMp ==
    /\ pcMp = "ready"
    /\ \E pos \in PositionIter(FromLines(linesMp)) :
        /\ posMp' = pos
        /\ retMp' = Some(Map2DValue(FromLines(linesMp), pos))
    /\ fnMp' = "Map2D::value"
    /\ UNCHANGED <<pcMp, linesMp>>
    /\ UNCHANGED othersMp

\* grid.value(&pos) on the Grid of the lines, pos out of grid.position_iter()
CallGridValueMp ==
    /\ pcMp = "ready"
    /\ \E pos \in PositionIter(FromLines(linesMp)) :
        /\ posMp' = pos
        /\ retMp' = Some(GridValue(FromLines(linesMp), pos))
    /\ fnMp' = "Grid::value"
    /\ UNCHANGED <<pcMp, linesMp>>
    /\ UNCHANGED othersMp

NextMp ==
    \/ CallMap2DValueMp
    \/ CallGridValueMp

-----------------------------------------------------------------------------
\* SPECIFICATIONS: one program runs, the others stay idle
InitFileIO == InitIO /\ Idle07 /\ IdleEq /\ Idle06 /\ Idle09 /\ Idle19 /\ Idle16 /\ Idle18 /\ Idle21 /\ Idle24 /\ IdleGe /\ Idle15 /\ Idle17 /\ IdleDf /\ Idle02 /\ Idle23 /\ IdleCl /\ Idle11 /\ IdleMp

SpecFileIO == InitFileIO /\ [][NextIO]_vars

InitDay07 == Init07 /\ IdleIO /\ IdleEq /\ Idle06 /\ Idle09 /\ Idle19 /\ Idle16 /\ Idle18 /\ Idle21 /\ Idle24 /\ IdleGe /\ Idle15 /\ Idle17 /\ IdleDf /\ Idle02 /\ Idle23 /\ IdleCl /\ Idle11 /\ IdleMp

SpecDay07 == InitDay07 /\ [][Next07]_vars

InitDay07Eq == InitEq /\ IdleIO /\ Idle07 /\ Idle06 /\ Idle09 /\ Idle19 /\ Idle16 /\ Idle18 /\ Idle21 /\ Idle24 /\ IdleGe /\ Idle15 /\ Idle17 /\ IdleDf /\ Idle02 /\ Idle23 /\ IdleCl /\ Idle11 /\ IdleMp

SpecDay07Eq == InitDay07Eq /\ [][NextEq]_vars

InitDay06 == Init06 /\ IdleIO /\ Idle07 /\ IdleEq /\ Idle09 /\ Idle19 /\ Idle16 /\ Idle18 /\ Idle21 /\ Idle24 /\ IdleGe /\ Idle15 /\ Idle17 /\ IdleDf /\ Idle02 /\ Idle23 /\ IdleCl /\ Idle11 /\ IdleMp

SpecDay06 == InitDay06 /\ [][Next06]_vars

\* the program is one thread that keeps running: a step that can be taken is taken
FairSpecDay06 == SpecDay06 /\ WF_vars(Next06)

InitDay09 == Init09 /\ IdleIO /\ Idle07 /\ IdleEq /\ Idle06 /\ Idle19 /\ Idle16 /\ Idle18 /\ Idle21 /\ Idle24 /\ IdleGe /\ Idle15 /\ Idle17 /\ IdleDf /\ Idle02 /\ Idle23 /\ IdleCl /\ Idle11 /\ IdleMp

SpecDay09 == InitDay09 /\ [][Next09]_vars

InitDay19 == Init19 /\ IdleIO /\ Idle07 /\ IdleEq /\ Idle06 /\ Idle09 /\ Idle16 /\ Idle18 /\ Idle21 /\ Idle24 /\ IdleGe /\ Idle15 /\ Idle17 /\ IdleDf /\ Idle02 /\ Idle23 /\ IdleCl /\ Idle11 /\ IdleMp

SpecDay19 == InitDay19 /\ [][Next19]_vars

InitDay16 == Init16 /\ IdleIO /\ Idle07 /\ IdleEq /\ Idle06 /\ Idle09 /\ Idle19 /\ Idle18 /\ Idle21 /\ Idle24 /\ IdleGe /\ Idle15 /\ Idle17 /\ IdleDf /\ Idle02 /\ Idle23 /\ IdleCl /\ Idle11 /\ IdleMp

SpecDay16 == InitDay16 /\ [][Next16]_vars

InitDay18 == Init18 /\ IdleIO /\ Idle07 /\ IdleEq /\ Idle06 /\ Idle09 /\ Idle19 /\ Idle16 /\ Idle21 /\ Idle24 /\ IdleGe /\ Idle15 /\ Idle17 /\ IdleDf /\ Idle02 /\ Idle23 /\ IdleCl /\ Idle11 /\ IdleMp

SpecDay18 == InitDay18 /\ [][Next18]_vars

InitDay21 == Init21 /\ IdleIO /\ Idle07 /\ IdleEq /\ Idle06 /\ Idle09 /\ Idle19 /\ Idle16 /\ Idle18 /\ Idle24 /\ IdleGe /\ Idle15 /\ Idle17 /\ IdleDf /\ Idle02 /\ Idle23 /\ IdleCl /\ Idle11 /\ IdleMp

SpecDay21 == InitDay21 /\ [][Next21]_vars

InitDay24 == Init24 /\ IdleIO /\ Idle07 /\ IdleEq /\ Idle06 /\ Idle09 /\ Idle19 /\ Idle16 /\ Idle18 /\ Idle21 /\ IdleGe /\ Idle15 /\ Idle17 /\ IdleDf /\ Idle02 /\ Idle23 /\ IdleCl /\ Idle11 /\ IdleMp

SpecDay24 == InitDay24 /\ [][Next24]_vars

InitDay24Ge == InitGe /\ IdleIO /\ Idle07 /\ IdleEq /\ Idle06 /\ Idle09 /\ Idle19 /\ Idle16 /\ Idle18 /\ Idle21 /\ Idle24 /\ Idle15 /\ Idle17 /\ IdleDf /\ Idle02 /\ Idle23 /\ IdleCl /\ Idle11 /\ IdleMp

SpecDay24Ge == InitDay24Ge /\ [][NextGe]_vars

InitDay15 == Init15 /\ IdleIO /\ Idle07 /\ IdleEq /\ Idle06 /\ Idle09 /\ Idle19 /\ Idle16 /\ Idle18 /\ Idle21 /\ Idle24 /\ IdleGe /\ Idle17 /\ IdleDf /\ Idle02 /\ Idle23 /\ IdleCl /\ Idle11 /\ IdleMp

SpecDay15 == InitDay15 /\ [][Next15]_vars

InitDay17 == Init17 /\ IdleIO /\ Idle07 /\ IdleEq /\ Idle06 /\ Idle09 /\ Idle19 /\ Idle16 /\ Idle18 /\ Idle21 /\ Idle24 /\ IdleGe /\ Idle15 /\ IdleDf /\ Idle02 /\ Idle23 /\ IdleCl /\ Idle11 /\ IdleMp

SpecDay17 == InitDay17 /\ [][Next17]_vars

InitDay09Df == InitDf /\ IdleIO /\ Idle07 /\ IdleEq /\ Idle06 /\ Idle09 /\ Idle19 /\ Idle16 /\ Idle18 /\ Idle21 /\ Idle24 /\ IdleGe /\ Idle15 /\ Idle17 /\ Idle02 /\ Idle23 /\ IdleCl /\ Idle11 /\ IdleMp

SpecDay09Df == InitDay09Df /\ [][NextDf]_vars

InitDay02 == Init02 /\ IdleIO /\ Idle07 /\ IdleEq /\ Idle06 /\ Idle09 /\ Idle19 /\ Idle16 /\ Idle18 /\ Idle21 /\ Idle24 /\ IdleGe /\ Idle15 /\ Idle17 /\ IdleDf /\ Idle23 /\ IdleCl /\ Idle11 /\ IdleMp

SpecDay02 == InitDay02 /\ [][Next02]_vars

InitDay23 == Init23 /\ IdleIO /\ Idle07 /\ IdleEq /\ Idle06 /\ Idle09 /\ Idle19 /\ Idle16 /\ Idle18 /\ Idle21 /\ Idle24 /\ IdleGe /\ Idle15 /\ Idle17 /\ IdleDf /\ Idle02 /\ IdleCl /\ Idle11 /\ IdleMp

SpecDay23 == InitDay23 /\ [][Next23]_vars

InitDay06Cl == InitCl /\ IdleIO /\ Idle07 /\ IdleEq /\ Idle06 /\ Idle09 /\ Idle19 /\ Idle16 /\ Idle18 /\ Idle21 /\ Idle24 /\ IdleGe /\ Idle15 /\ Idle17 /\ IdleDf /\ Idle02 /\ Idle23 /\ Idle11 /\ IdleMp

SpecDay06Cl == InitDay06Cl /\ [][NextCl]_vars

\* the program is one thread that keeps running: a step that can be taken is taken
FairSpecDay06Cl == SpecDay06Cl /\ WF_vars(NextCl)

InitDay11 == Init11 /\ IdleIO /\ Idle07 /\ IdleEq /\ Idle06 /\ Idle09 /\ Idle19 /\ Idle16 /\ Idle18 /\ Idle21 /\ Idle24 /\ IdleGe /\ Idle15 /\ Idle17 /\ IdleDf /\ Idle02 /\ Idle23 /\ IdleCl /\ IdleMp

SpecDay11 == InitDay11 /\ [][Next11]_vars

InitMap2D == InitMp /\ IdleIO /\ Idle07 /\ IdleEq /\ Idle06 /\ Idle09 /\ Idle19 /\ Idle16 /\ Idle18 /\ Idle21 /\ Idle24 /\ IdleGe /\ Idle15 /\ Idle17 /\ IdleDf /\ Idle02 /\ Idle23 /\ IdleCl /\ Idle11

SpecMap2D == InitMap2D /\ [][NextMp]_vars

-----------------------------------------------------------------------------
\* CLAIMS

\* ---- C1 ----
FlawlessIO ==
    /\ fileIO.exists
    /\ \A i \in 1..Len(fileIO.lines) :
          LET ws == SplitWhitespace(fileIO.lines[i])
          IN  /\ \A k \in 1..Len(ws) : ParseNumber(ws[k]) # None
              /\ fnIO = "two_columns_from_file" => Len(ws) = 2

\* what a complete parse of the file is: every word of every line, in order
FullParseIO ==
    LET row(i) == LET ws == SplitWhitespace(fileIO.lines[i])
                  IN  [k \in 1..Len(ws) |-> ParseNumber(ws[k])[1]]
        n == Len(fileIO.lines)
    IN  IF fnIO = "two_columns_from_file"
        THEN <<[i \in 1..n |-> row(i)[1]], [i \in 1..n |-> row(i)[2]]>>
        ELSE [i \in 1..n |-> row(i)]

\* C1: the readers return nothing partial.  A call that returns has read a file
\* that opened, whose every word parsed and (two_columns_from_file) whose every
\* line holds exactly two words, and returns the parse of all of it; every other
\* call ends in a panic with a message and returns no value, and no value is
\* there before the call has returned.
C1_NoPartialData ==
    /\ pcIO = "returned" => FlawlessIO /\ retIO = Some(FullParseIO)
    /\ pcIO = "panicked" => ~FlawlessIO /\ diagIO # "" /\ retIO = None
    /\ pcIO \in {"call", "reading"} => retIO = None

\* a file whose first line is good and whose second line has three words ended
\* the call of two_columns_from_file in a panic, with one tuple already read
C1_Witness ==
    /\ pcIO = "panicked"
    /\ fnIO = "two_columns_from_file"
    /\ Len(accIO) = 1
    /\ Len(SplitWhitespace(fileIO.lines[2])) = 3
    /\ diagIO = "Each line must contain exactly two elements."

\* ---- C2 ----
HasSeparator07(line) == \E i \in 1..(Len(line) - 1) : line[i] = ":" /\ line[i + 1] = " "

\* C2: a line without ": " ends the program in a panic, so a run of part1 or
\* part2 that returns a sum has read a file whose every line holds ": " and has
\* made an equation of every line.
C2_NoLineSkipped ==
    pc07 = "returned" =>
        /\ \A i \in 1..Len(file07.lines) : HasSeparator07(file07.lines[i])
        /\ Len(equations07) = Len(file07.lines)

\* ---- C5 ----
\* C5: equation_possible(target, numbers, concatenation_allowed) is true exactly
\* when some choice of + and * (and, when allowed, of decimal concatenation)
\* between consecutive numbers, evaluated left to right, gives target.
C5_EquationPossibleExact ==
    pcEq = "returned" => (resEq <=> targetEq \in Values(numbersEq, concatEq))

\* ---- C3 ----
\* C3: part1 terminates for every maze: the walk of get_visited_positions ends
\* (step_guard returns None) and part1 returns.
C3_Part1Terminates == <>(pc06 = "returned")

\* ---- C4 ----
\* the disk cell by cell: the id of the file a cell holds, -1 for a free cell
RECURSIVE Cells09(_)
Cells09(harddisk) ==
    IF harddisk = <<>> THEN <<>>
    ELSE [i \in 1..harddisk[1].size |-> IF harddisk[1].kind = "File" THEN harddisk[1].id ELSE -1]
         \o Cells09(Tail(harddisk))

\* the last file block moves into the leftmost free cell, until no free cell
\* lies to the left of a file block
RECURSIVE Compacted09(_)
Compacted09(cells) ==
    LET free == {i \in 1..Len(cells) : cells[i] = -1}
        used == {i \in 1..Len(cells) : cells[i] # -1}
    IN  IF \E f \in free, u \in used : f < u
        THEN LET f == CHOOSE f \in free : \A g \in free : f <= g
                 u == CHOOSE u \in used : \A v \in used : v <= u
             IN  Compacted09([cells EXCEPT ![f] = cells[u], ![u] = -1])
        ELSE cells

CellChecksum09(cells) ==
    SeqSum([i \in 1..Len(cells) |-> IF cells[i] = -1 THEN 0 ELSE (i - 1) * cells[i]])

StoredSize09(harddisk, id) ==
    SeqSum([i \in 1..Len(harddisk) |->
              IF harddisk[i].kind = "File" /\ harddisk[i].id = id THEN harddisk[i].size ELSE 0])

\* C4: the checksum of compressed(blocks) is the checksum of the disk compacted
\* block by block, and the output stores for every file id the size the file has
\* in the input.
C4_CompressedIsCompaction ==
    pc09 = "returned" =>
        /\ ret09 = Some(CellChecksum09(Compacted09(Cells09(harddisk09))))
        /\ \A id \in 0..Len(harddisk09) :
              StoredSize09(compressed09, id) = StoredSize09(harddisk09, id)

\* C6: after any sequence of insert calls on a new trie, contains(p) is true
\* exactly when p is the empty pattern or one of the inserted patterns (so a
\* prefix or an extension that was not inserted is not contained, and an
\* inserted pattern stays contained after later inserts).
C6_ContainsExactlyInserted ==
    fn19 = "contains" =>
        ret19 = Some((arg19 = << >>) \/ (arg19 \in towels19))

\* contains has answered false for a proper prefix of an inserted pattern,
\* after two inserts or more
C6_Witness ==
    /\ fn19 = "contains"
    /\ ret19 = Some(FALSE)
    /\ arg19 # << >>
    /\ Cardinality(towels19) >= 2
    /\ \E t \in towels19 :
        Len(t) > Len(arg19) /\ SubSeq(t, 1, Len(arg19)) = arg19

\* the cuts of a design: a set of positions 1..Len-1; the pieces between them
PieceStarts19(design, cuts) == {0} \cup cuts

PieceEnd19(design, cuts, start) ==
    LET later == {c \in cuts \cup {Len(design)} : c > start}
    IN  CHOOSE c \in later : \A d \in later : c <= d

Segmentations19(design) ==
    {cuts \in SUBSET (1..(Len(design) - 1)) :
        \A start \in PieceStarts19(design, cuts) :
            SubSeq(design, start + 1, PieceEnd19(design, cuts, start)) \in towels19}

\* C7: for a non-empty design ways_to_make is the number of ways to split the
\* design into inserted patterns, and can_make is true exactly when there is
\* such a way.
C7_WaysToMakeCountsSplits ==
    /\ (fn19 = "ways_to_make" /\ arg19 # << >>) =>
            ret19 = Some(Cardinality(Segmentations19(arg19)))
    /\ (fn19 = "can_make" /\ arg19 # << >>) =>
            ret19 = Some(Segmentations19(arg19) # {})

\* a design of three stripes or more that can be made in two ways or more,
\* one of them through a pattern that recurs (a cache hit)
C7_Witness ==
    /\ fn19 = "ways_to_make"
    /\ Len(arg19) >= 3
    /\ ret19 # None
    /\ ret19[1] >= 3

\* the routes of the maze, step by step: a state is a tile and a direction,
\* a turn by 90 degrees costs 1000, a step onto an Empty tile costs 1
States16 == Positions16(bounds16) \X {"UP", "RIGHT", "DOWN", "LEFT"}

Unreached16 == 1000000

Quarters16(dir) ==
    IF dir \in {"UP", "DOWN"} THEN {"LEFT", "RIGHT"} ELSE {"UP", "DOWN"}

Ahead16(pos, dir) ==
    CASE dir = "UP" -> <<pos[1], pos[2] - 1>>
      [] dir = "DOWN" -> <<pos[1], pos[2] + 1>>
      [] dir = "LEFT" -> <<pos[1] - 1, pos[2]>>
      [] dir = "RIGHT" -> <<pos[1] + 1, pos[2]>>

Behind16(pos, dir) ==
    CASE dir = "UP" -> <<pos[1], pos[2] + 1>>
      [] dir = "DOWN" -> <<pos[1], pos[2] - 1>>
      [] dir = "LEFT" -> <<pos[1] + 1, pos[2]>>
      [] dir = "RIGHT" -> <<pos[1] - 1, pos[2]>>

Least16(S) == CHOOSE x \in S : \A y \in S : x <= y

\* the table of a function, written out
Table16(f) == f @@ << >>

\* the least cost of the moves from the start into each state: relaxed until
\* nothing changes
RECURSIVE FromStart16(_)
FromStart16(d) ==
    LET n == Table16([t \in States16 |->
                Least16({d[t]}
                    \cup {d[<<t[1], q>>] + 1000 : q \in Quarters16(t[2])}
                    \cup (IF /\ Behind16(t[1], t[2]) \in Positions16(bounds16)
                             /\ field16[t[1]] = "Empty"
                          THEN {d[<<Behind16(t[1], t[2]), t[2]>>] + 1}
                          ELSE {}))])
    IN  IF n = d THEN d ELSE FromStart16(n)

\* the least cost of the moves from each state to the end tile
RECURSIVE ToEnd16(_)
ToEnd16(d) ==
    LET n == Table16([s \in States16 |->
                Least16({d[s]}
                    \cup {1000 + d[<<s[1], q>>] : q \in Quarters16(s[2])}
                    \cup (IF /\ Ahead16(s[1], s[2]) \in Positions16(bounds16)
                             /\ field16[Ahead16(s[1], s[2])] = "Empty"
                          THEN {1 + d[<<Ahead16(s[1], s[2]), s[2]>>]}
                          ELSE {}))])
    IN  IF n = d THEN d ELSE ToEnd16(n)

CostFromStart16 ==
    FromStart16(Table16([s \in States16 |->
                    IF s = <<start16, "RIGHT">> THEN 0 ELSE Unreached16]))

CostToEnd16 ==
    ToEnd16(Table16([s \in States16 |-> IF s[1] = end16 THEN 0 ELSE Unreached16]))

MinCostOf16(f) == Least16({f[s] : s \in {t \in States16 : t[1] = end16}})

MinCost16 == MinCostOf16(CostFromStart16)

TilesOnBestRoutesOf16(f, e) ==
    {s[1] : s \in {t \in States16 : f[t] + e[t] = MinCostOf16(f)}}

\* the result the claim describes
Expected16 ==
    LET f == CostFromStart16
    IN  <<MinCostOf16(f), Cardinality(TilesOnBestRoutesOf16(f, CostToEnd16))>>

\* C8: score_and_best_seats returns (m, n), m the least cost of a route from S
\* facing RIGHT to E in any direction and n the number of tiles that lie on a
\* route of cost m, whatever the order in which entries of equal score are
\* popped; a maze without a route ends in the panic.
C8_ScoreAndBestSeats ==
    /\ pc16 = "returned" =>
         /\ ret16 = Some(Expected16)
         /\ ret16[1][1] < Unreached16
    /\ pc16 = "panicked" => MinCost16 >= Unreached16

\* returned with more best seats than one route of that cost has tiles: two
\* routes or more share the least cost
C8_Witness ==
    /\ pc16 = "returned"
    /\ ret16 # None
    /\ ret16[1][2] > (ret16[1][1] % 1000) + 1

\* the positions that still work once the first n corruptions have fallen
Working18(n) ==
    Positions16(size18) \ {corruptions18[k] : k \in 1..n}

\* the positions joined to the set S by steps between working neighbours
RECURSIVE Joined18(_, _)
Joined18(S, working) ==
    LET more == {p \in working : \E q \in S : p \in Neighbours(q)} \ S
    IN  IF more = {} THEN S ELSE Joined18(S \cup more, working)

\* (0,0) and (width-1,height-1) are joined by working positions
Connected18(n) ==
    /\ <<0, 0>> \in Working18(n)
    /\ <<size18[1] - 1, size18[2] - 1>> \in Joined18({<<0, 0>>}, Working18(n))

\* what shortest_path answers once the first n corruptions have fallen: it
\* walks from (0,0), whatever fell there, onto working neighbours
PathFound18(n) ==
    <<size18[1] - 1, size18[2] - 1>> \in Joined18({<<0, 0>>}, Working18(n))

\* the conclusion of C9 for the returned index
SmallestBlocking18 ==
    /\ ret18 # None
    /\ ~PathFound18(ret18[1] + 1)
    /\ \A n \in 0..ret18[1] : PathFound18(n)

\* C9: when some prefix of the corruptions disconnects (0,0) from
\* (width-1,height-1), find_blocking_byte returns the smallest index i such
\* that shortest_path finds no path once corruptions[0..=i] have fallen.
C9_SmallestBlockingIndex ==
    (pc18 = "returned" /\ \E n \in 1..Len(corruptions18) : ~Connected18(n))
        => SmallestBlocking18

\* the same for the lists that leave (0,0) alone
C9_OffStart ==
    (/\ pc18 = "returned"
     /\ \A k \in 1..Len(corruptions18) : corruptions18[k] # <<0, 0>>
     /\ \E n \in 1..Len(corruptions18) : ~Connected18(n))
        => SmallestBlocking18

\* every answer of shortest_path inside the search is the one PathFound18 gives
ProbesAgree18 ==
    /\ (pc18 = "path" /\ runners18 = EmptyBag) => ~PathFound18(mid18 + 1)
    /\ (pc18 = "path" /\ \E r \in BagToSet(runners18) : r.pos = memory18.end)
            => PathFound18(mid18 + 1)

\* the keys typed on the numeric keypad when the keys of seq are pressed, one
\* after the other, on the keypad pressed directly, from the start of the
\* chain; None when an arm comes to point at no key
RECURSIVE PressAll21(_, _, _)
PressAll21(depth, seq, state) ==
    IF state = None \/ seq = << >> THEN state
    ELSE IF Len(seq) = 1
    THEN PressOn(depth, seq[1], state[1].arms, state[1].typed)
    ELSE LET half == Len(seq) \div 2
         IN  PressAll21(depth, SubSeq(seq, half + 1, Len(seq)),
                        PressAll21(depth, SubSeq(seq, 1, half), state))

TypedFrom21(depth, seq) ==
    LET end == PressAll21(depth, seq, Some([arms |-> ArmsAtStart(depth), typed |-> << >>]))
    IN  IF end = None THEN None ELSE Some(end[1].typed)

\* C10: min_for_sequence(code) is a sequence of presses on the keypad pressed
\* directly that makes the numeric keypad type the code with no arm at a gap,
\* its length is min_len_for_sequence(code), and no sequence of presses that
\* types the code is shorter, whatever the earlier calls left in the caches.
C10_MinimalKeySequence ==
    /\ (pc21 = "calls" /\ len21 # None) =>
         /\ TypedFrom21(depth21, seq21[1]) = Some(code21)
         /\ Len(seq21[1]) = len21[1]
    /\ (pc21 = "presses" /\ typed21 # << >>) => presses21 >= lengths21[typed21]

\* a code of two different digits has been typed by hand through three
\* directional keypads in exactly the number of presses that
\* min_len_for_sequence returned for it
C10_Witness ==
    /\ pc21 = "presses"
    /\ depth21 = 3
    /\ Len(typed21) = 2
    /\ typed21[1] # "A" /\ typed21[2] # "A" /\ typed21[1] # typed21[2]
    /\ presses21 = lengths21[typed21]

\* the wires a wire is computed from, in the parsed device
Inputs24(w) ==
    IF w \in DOMAIN inputs24 \/ w \notin DOMAIN gate_map24 THEN {}
    ELSE {gate_map24[w].a, gate_map24[w].b}

RECURSIVE Closure24(_)
Closure24(S) ==
    LET more == UNION {Inputs24(w) : w \in S} \ S
    IN  IF more = {} THEN S ELSE Closure24(S \cup more)

\* the wires w depends on, w not among them unless it depends on itself
DependsOn24(w) == IF Inputs24(w) = {} THEN {} ELSE Closure24(Inputs24(w))

\* w is, or depends on, a wire that depends on itself
Circular24(w) == \E v \in DependsOn24(w) \cup {w} : v \in DependsOn24(v)

\* w is, or depends on, a wire without a known value and without a gate
Incomplete24(w) ==
    \E v \in DependsOn24(w) \cup {w} :
        v \notin DOMAIN inputs24 /\ v \notin DOMAIN gate_map24

\* the truth table of a gate
Truth24(op, a, b) ==
    CASE op = "XOR" -> (a /\ ~b) \/ (~a /\ b)
      [] op = "AND" -> a /\ b
      [] op = "OR" -> a \/ b

\* the value of the circuit at w, for a circuit that is neither circular
\* nor incomplete at w
RECURSIVE Value24(_)
Value24(w) ==
    IF w \in DOMAIN inputs24 THEN inputs24[w]
    ELSE Truth24(gate_map24[w].op, Value24(gate_map24[w].a), Value24(gate_map24[w].b))

C12_GateEqSymmetric ==
    (/\ pcGe = "done"
     /\ leftGe.op = rightGe.op
     /\ \/ (leftGe.a = rightGe.a /\ leftGe.b = rightGe.b)
        \/ (leftGe.a = rightGe.b /\ leftGe.b = rightGe.a))
        => resGe = Some(TRUE)

\* gates that are equal field by field do compare equal
C12_SameOrderEqual ==
    (/\ pcGe = "done"
     /\ leftGe.op = rightGe.op
     /\ leftGe.a = rightGe.a /\ leftGe.b = rightGe.b)
        => resGe = Some(TRUE)

\* the cell i steps from the robot of before the call, None off the grid
RECURSIVE Ahead15(_)
Ahead15(i) ==
    IF i = 0 THEN Some(before15.robot)
    ELSE LET prev == Ahead15(i - 1)
         IN  IF prev = None THEN None ELSE TryStep(prev[1], dir15, bounds15)

\* the number of boxes in a row next to the robot, before the call
RECURSIVE BoxRun15(_)
BoxRun15(i) ==
    LET cell == Ahead15(i + 1)
    IN  IF cell # None /\ before15.room[cell[1]] = "Box" THEN BoxRun15(i + 1) ELSE i

\* the room with the robot's k boxes advanced by one cell
Pushed15(k) ==
    IF k = 0 THEN before15.room
    ELSE [pos \in DOMAIN before15.room |->
            IF pos = Ahead15(1)[1] THEN "Empty"
            ELSE IF pos = Ahead15(k + 1)[1] THEN "Box"
            ELSE before15.room[pos]]

\* C13: with k >= 0 boxes in a row next to the robot and an empty cell behind
\* them, try_step returns true, the robot advances one cell and so does each
\* of the k boxes; with a wall or the grid edge behind them it returns false
\* and the robot and every cell stay as they were
C13_TryStepPushesBoxes ==
    ret15 # None =>
        LET k == BoxRun15(0)
            behind == Ahead15(k + 1)
        IN  IF behind # None /\ before15.room[behind[1]] = "Empty"
            THEN /\ ret15 = Some(TRUE)
                 /\ robot15 = Ahead15(1)[1]
                 /\ room15 = Pushed15(k)
            ELSE /\ ret15 = Some(FALSE)
                 /\ robot15 = before15.robot
                 /\ room15 = before15.room

\* a second step that pushes two boxes
C13_Witness ==
    /\ steps15 = 2
    /\ ret15 = Some(TRUE)
    /\ BoxRun15(0) = 2
    /\ before15.robot # robot15

\* a step against boxes held by the grid edge
C13_WitnessEdge ==
    /\ ret15 = Some(FALSE)
    /\ BoxRun15(0) >= 1
    /\ Ahead15(BoxRun15(0) + 1) = None

\* the run of the program with register A = a and B = C = 0
RunWith17(a) ==
    Run17(build17, ProgramStateNew(program17, a), << >>, Len(program17))

\* C14: whenever reverse_engineer_a(program, program, 0) returns Some(a), the
\* program run with A = a, B = C = 0 puts out exactly its own numbers and halts
C14_ReturnedAReproducesProgram ==
    (ret17 # None /\ ret17[1][1] = "Returned" /\ ret17[1][2] # None) =>
        RunWith17(ret17[1][2][1]) = [outcome |-> "Halt", outputs |-> program17]

\* what the search does establish: the first number put out with A = a is the
\* first number of the program
C14_FirstOutputMatches ==
    (ret17 # None /\ ret17[1][1] = "Returned" /\ ret17[1][2] # None) =>
        LET r == StepToOutcome(build17, ProgramStateNew(program17, ret17[1][2][1]), {})
        IN  r.outcome = "Output" /\ r.out = program17[1]

\* the cells a file holds
CellsOf09(cells, id) == {i \in 1..Len(cells) : cells[i] = id}

\* the first cell of the leftmost run of size free cells that ends before
\* cell start; 0 without one
LeftmostSpan09(cells, size, start) ==
    LET fits == {j \in 1..(start - size) : \A i \in j..(j + size - 1) : cells[i] = -1}
    IN  IF fits = {} THEN 0 ELSE CHOOSE j \in fits : \A k \in fits : j <= k

\* the files from id down to 0, each moved whole into the leftmost free span
\* to its left that holds it
RECURSIVE MovedWhole09(_, _)
MovedWhole09(cells, id) ==
    IF id < 0 THEN cells
    ELSE LET own == CellsOf09(cells, id)
         IN  IF own = {} THEN MovedWhole09(cells, id - 1)
             ELSE LET start == CHOOSE i \in own : \A k \in own : i <= k
                      size == Cardinality(own)
                      to == LeftmostSpan09(cells, size, start)
                  IN  IF to = 0 THEN MovedWhole09(cells, id - 1)
                      ELSE MovedWhole09(
                              [i \in 1..Len(cells) |->
                                  IF i \in to..(to + size - 1) THEN id
                                  ELSE IF i \in own THEN -1
                                  ELSE cells[i]],
                              id - 1)

FileBlocks09(harddisk, id) ==
    {i \in 1..Len(harddisk) : harddisk[i].kind = "File" /\ harddisk[i].id = id}

TotalSize09(harddisk) == SeqSum([i \in 1..Len(harddisk) |-> harddisk[i].size])

\* C15: after defrag_compress the disk is the one obtained by taking the files
\* in order of decreasing id and moving each whole file at most once into the
\* leftmost free span to its left that is at least as large; every file id
\* occurs once with its size, and the sum of the block sizes is unchanged
C15_DefragMovesWholeFiles ==
    pcDf = "returned" =>
        LET blocks == BlocksFromString(mapDf)
        IN  /\ Cells09(harddiskDf) = MovedWhole09(Cells09(blocks), Len(blocks))
            /\ \A id \in 0..Len(blocks) :
                  /\ Cardinality(FileBlocks09(harddiskDf, id)) = Cardinality(FileBlocks09(blocks, id))
                  /\ StoredSize09(harddiskDf, id) = StoredSize09(blocks, id)
            /\ TotalSize09(harddiskDf) = TotalSize09(blocks)
            /\ \A i, j \in 1..Len(movesDf) : i < j => movesDf[i] > movesDf[j]

\* the files of the map all have a cell
NoEmptyFile09(blocks) ==
    \A i \in 1..Len(blocks) : blocks[i].kind = "File" => blocks[i].size > 0

\* what holds: the same, for the disk maps without a file of size 0
C15_HoldsWithoutEmptyFiles ==
    NoEmptyFile09(BlocksFromString(mapDf)) => C15_DefragMovesWholeFiles

\* what holds for every disk map: the files keep their sizes, the sum of the
\* block sizes is unchanged and the files move in order of decreasing id
C15_BlocksKept ==
    pcDf = "returned" =>
        LET blocks == BlocksFromString(mapDf)
        IN  /\ \A id \in 0..Len(blocks) :
                  /\ Cardinality(FileBlocks09(harddiskDf, id)) = Cardinality(FileBlocks09(blocks, id))
                  /\ StoredSize09(harddiskDf, id) = StoredSize09(blocks, id)
            /\ TotalSize09(harddiskDf) = TotalSize09(blocks)
            /\ \A i, j \in 1..Len(movesDf) : i < j => movesDf[i] > movesDf[j]

\* the report without its i-th number
Without02(report, i) == SubSeq(report, 1, i - 1) \o SubSeq(report, i + 1, Len(report))

\* the prefixes the loop of is_safe_report_with_damper looks at before idx
FirstUnsafeLeft02(report) ==
    {idx \in 1..(Len(report) - 2) : ~IsSafeReport(SubSeq(report, 1, idx))}

\* C16: is_safe_report_with_damper(report) is true exactly when the report, or
\* the report with one number removed, satisfies is_safe_report
C16_DamperIsOneRemoval ==
    (fn02 = "is_safe_report_with_damper" /\ ret02 # None) =>
        ret02 = Some(\/ IsSafeReport(report02)
                     \/ \E i \in 1..Len(report02) : IsSafeReport(Without02(report02, i)))

\* a report of 5 numbers that only the removal of an inner number makes safe
C16_Witness ==
    /\ fn02 = "is_safe_report_with_damper"
    /\ ret02 = Some(TRUE)
    /\ Len(report02) = 5
    /\ ~IsSafeReport(report02)
    /\ ~IsSafeReport(Without02(report02, 1))
    /\ ~IsSafeReport(Without02(report02, 5))

\* a report rejected by the early return: an unsafe left part, and no removal
\* makes it safe
C16_WitnessEarlyReturn ==
    /\ fn02 = "is_safe_report_with_damper"
    /\ ret02 = Some(FALSE)
    /\ FirstUnsafeLeft02(report02) # {}

\* the sets of computers all connected to each other
Cliques23 ==
    {s \in SUBSET DOMAIN data23 : \A c, d \in s : c # d => d \in data23[c]}

LargestCliques23 ==
    {s \in Cliques23 : \A t \in Cliques23 : Cardinality(t) <= Cardinality(s)}

\* C17: two runs of largest_clique on the same graph return the same set of
\* computers, whatever order the sets are iterated in
C17_SameCliqueEveryRun ==
    runs23 = 2 => ret23 = earlier23

\* what holds: every run returns one of the largest cliques of the graph
C17_ReturnsALargestClique ==
    runs23 >= 1 => (ret23 # None /\ ret23[1] \in LargestCliques23)

\* what holds: two runs return the same set when the graph has one largest
\* clique
C17_SameWhenUnique ==
    (runs23 = 2 /\ Cardinality(LargestCliques23) = 1) => ret23 = earlier23

\* the guard states of a maze
GuardStatesCl ==
    {[pos |-> p, dir |-> d] : p \in Cells06(boundsCl) \cup {<<0, 0>>}, d \in Directions06}

\* the guard states the guard of the maze as read goes through with one more
\* obstacle
RECURSIVE WalkCl(_, _)
WalkCl(seen, obstacles) ==
    LET next == {StepGuard06(g, obstacles, boundsCl).guard : g \in seen}
    IN  IF next \subseteq seen THEN seen ELSE WalkCl(seen \cup next, obstacles)

\* the guard of the maze as read never leaves the grid with one more obstacle
LoopsWithCl(obstacle) ==
    LET obstacles == maze0Cl.obstacles \cup {obstacle}
    IN  \A g \in WalkCl({maze0Cl.guard}, obstacles) :
            StepGuard06(g, obstacles, boundsCl).ret # None

\* C18: creates_loop ends (its loop takes no more turns than there are guard
\* states) and leaves maze.guard and maze.obstacles as they were, so that the
\* value of a call is the one for the maze as read, whatever was called before
C18_CreatesLoopRestoresMaze ==
    /\ pcCl = "loop" =>
          /\ stepsCl < Cardinality(visited_guard_statesCl) + 1
          /\ visited_guard_statesCl \subseteq GuardStatesCl
          /\ \/ ENABLED StepCl
             \/ ENABLED LoopFoundCl
             \/ ENABLED LeaveCl
    /\ pcCl = "returned" =>
          /\ guardCl = maze0Cl.guard
          /\ obstaclesCl = maze0Cl.obstacles
          /\ retCl = Some(LoopsWithCl(obstacleCl))

\* a second call on the same maze has found a loop, after more than 4 turns
C18_Witness ==
    /\ pcCl = "returned"
    /\ callsCl = 2
    /\ retCl = Some(TRUE)
    /\ stepsCl > 4

\* the sum of the counts of a map
RECURSIVE SumCounts11(_, _)
SumCounts11(map, todo) ==
    IF todo = {} THEN 0
    ELSE LET stone == CHOOSE s \in todo : TRUE
         IN  map[stone] + SumCounts11(map, todo \ {stone})

\* C19: after the same number of blinks the map of blink_map holds exactly the
\* stones of the list of blink_list, each with the number of times it occurs,
\* so that the sum of the counts is the length of the list
C19_BlinkMapAgreesWithBlinkList ==
    list_blinks11 = map_blinks11 =>
        /\ stone_map11 = CountsOf(stone_list11)
        /\ SumCounts11(stone_map11, DOMAIN stone_map11) = Len(stone_list11)

\* four blinks of each: more than 4 stones, one that occurs more than once and
\* one that was multiplied by 2024
C19_Witness ==
    /\ list_blinks11 = 4
    /\ map_blinks11 = 4
    /\ \E stone \in DOMAIN stone_map11 : stone_map11[stone] > 1
    /\ \E stone \in DOMAIN stone_map11 : stone > 2024
    /\ Len(stone_list11) > 4

\* the character at column x of line y, both counted from 0
CharAtMp(x, y) == linesMp[y + 1][x + 1]

\* C20: for a grid parsed from the same lines, value(ValidPosition(x, y)) of
\* Map2D and of Grid is the character at column x of line y, for every position
\* of position_iter, and no index is out of range
C20_BothGridsReturnTheCharacter ==
    retMp # None => retMp = Some(Ok(CharAtMp(posMp[1], posMp[2])))

\* what holds: Grid::value returns the character at column x of line y
C20_GridReturnsTheCharacter ==
    (retMp # None /\ fnMp = "Grid::value") =>
        retMp = Some(Ok(CharAtMp(posMp[1], posMp[2])))

\* what holds: Map2D::value returns the character at column y of line x, and
\* panics where the lines have none
C20_Map2DReturnsTheTransposed ==
    (retMp # None /\ fnMp = "Map2D::value") =>
        IF posMp[1] < Len(linesMp) /\ posMp[2] < Len(linesMp[1])
        THEN retMp = Some(Ok(CharAtMp(posMp[2], posMp[1])))
        ELSE retMp = Some(Err("Panic"))

=============================================================================
